---- MODULE Spec2Model ----
(***************************************************************************)
(* FSA-ProjectBuilder: decomposition of one Python document into a bucket  *)
(* tree (core/rebuilder.py, core/parser.py, core/dependency_resolver.py)   *)
(* and its recomposition into one document (core/builder.py).              *)
(*                                                                         *)
(* Three specifications share the variables:                               *)
(*   SpecLoadOrder  DependencyResolver.get_load_order as a step machine    *)
(*   SpecParse      CodeParser's extraction of line ranges                 *)
(*   Spec           Rebuilder.rebuild followed by Builder.build            *)
(***************************************************************************)
EXTENDS Integers, Sequences, FiniteSets, TLC

VARIABLES
    \* ---- DependencyResolver.get_load_order ----
    dependencies,   \* self.dependencies: component -> set of its dependencies
    lo_pc,          \* position in get_load_order: "idle", "loop", "done", "raised"
    lo_todo,        \* components the outer for loop has not reached yet
    lo_stack,       \* the active calls of visit(): <<[node, todo]>>, innermost last
    visited,        \* the set visited
    temp_visited,   \* the set temp_visited
    result,         \* the list result
    \* ---- DependencyResolver.detect_cycles ----
    dc_pc,          \* position in detect_cycles: "off", "idle", "loop", "done"
    dc_todo,        \* keys the outer for loop has not reached yet
    dc_stack,       \* the active calls of dfs(): <<[node, todo]>>, innermost last
    dc_visited,     \* the set visited of detect_cycles
    rec_stack,      \* the set rec_stack
    path,           \* the list path
    cycles,         \* the list cycles
    \* ---- Rebuilder._would_create_cycle ----
    cc_call,        \* the call: [graph, from_class, to_class], "none" before
    cc_result,      \* what the call returned: "none", "True", "False"
    \* ---- the document and CodeParser ----
    doc,            \* the source document: [parseable, stmts]
    pc,             \* position of the run
    structure,      \* CodeParser.get_structure(), "none" before a successful parse
    \* ---- the bucket tree and Rebuilder.rebuild ----
    dirs,           \* the directories created under the destination
    files,          \* the files of the bucket tree: path -> text
    metadata_file,  \* .metadata/metadata.json: [present, module_mapping]
    rebuild_result, \* what rebuild() returned: "none", "True", "False"
    \* ---- Builder.build ----
    metadata,       \* self.metadata
    modules_order,  \* self.modules_order
    output,         \* the document written: [imports, sections], "none" before
    build_result,   \* what build() returned: "none", "True", "False"
    \* ---- config.BUILD_CONFIG and Builder._apply_config ----
    BUILD_CONFIG,   \* the dict BUILD_CONFIG['cleanup'] of the process
    cl_pc,          \* "off", "idle", "once" (after a build), "twice"
    cl_code,        \* the combined text handed to _apply_config: a list of lines
    cl_config,      \* the cleanup settings of the last build
    cl_default,     \* was the last build called without a config: "none", "yes", "no"
    cl_once,        \* the text _apply_config returned
    cl_twice,       \* the text _apply_config returned on cl_once
    \* ---- Rebuilder._generate_imports_code: the split of the constants ----
    split_pc,       \* "off", "idle", "done"
    class_names,    \* the set class_names
    constants,      \* the list constants: [name, rhs] each
    simple_constants, \* the list simple_constants
    global_init,    \* the list global_init
    \* ---- the split program under the Python interpreter ----
    ld_pc,          \* "off", "idle", "running", "loaded", "failed"
    ld_entry,       \* how the entry point is run: "launcher" or "statements"
    ld_todo,        \* the import statements of the entry point not yet run
    sys_modules,    \* sys.modules: the files loaded, each with its namespace
    main_namespace, \* the namespace of __main__
    \* ---- Rebuilder._generate_init_files, the text of the files ----
    ic_pc,          \* "off", "categories", "main", "done"
    ic_todo,        \* the categories whose __init__.py is not yet written
    init_code,      \* category -> the text of its __init__.py
    main_init,      \* the categories the __init__.py of the destination imports
    \* ---- one rewriting pass applied to a text and to its own output ----
    rw_pc,          \* "off", "input", "once", "twice"
    rw_pass,        \* the pass applied
    rw_input,       \* the text handed to the pass
    rw_once,        \* the text the pass returned
    rw_twice        \* the text the pass returned for rw_once

dcvars == <<dc_pc, dc_todo, dc_stack, dc_visited, rec_stack, path, cycles>>

ccvars == <<cc_call, cc_result>>

lovars ==
    <<dependencies, lo_pc, lo_todo, lo_stack, visited, temp_visited, result, dcvars, ccvars>>

docvars == <<doc, pc, structure>>

treevars == <<dirs, files, metadata_file, rebuild_result>>

cfgvars == <<BUILD_CONFIG, cl_pc, cl_code, cl_config, cl_default, cl_once, cl_twice>>

splitvars == <<split_pc, class_names, constants, simple_constants, global_init>>

buildvars == <<metadata, modules_order, output, build_result, cfgvars>>

loadvars == <<ld_pc, ld_entry, ld_todo, sys_modules, main_namespace>>

\* The variables of the machines beside rebuild and build.
initvars == <<ic_pc, ic_todo, init_code, main_init>>

passvars == <<rw_pc, rw_pass, rw_input, rw_once, rw_twice>>

sidevars == <<splitvars, loadvars, initvars, passvars>>

vars == <<lovars, docvars, treevars, buildvars, sidevars>>

(***************************************************************************)
(* Generic helpers                                                         *)
(***************************************************************************)
Range(s) == {s[i] : i \in 1..Len(s)}

Count(s, x) == Cardinality({i \in 1..Len(s) : s[i] = x})

(***************************************************************************)
(* The destination before Rebuilder.rebuild, and a Builder after __init__  *)
(***************************************************************************)
\* No file: the function from paths to texts with the empty domain.
NoFiles == <<>>

\* No metadata.json; also self.metadata = None.
NoMetadata == [present |-> FALSE, module_mapping |-> <<>>]

\* No output document.
NoOutput == [written |-> FALSE, imports |-> {}, sections |-> <<>>]

TreeInit ==
    /\ dirs = {}
    /\ files = NoFiles
    /\ metadata_file = NoMetadata
    /\ rebuild_result = "none"

\* config.py: BUILD_CONFIG['cleanup'] as the module defines it.
DefaultBuildConfig ==
    [remove_empty_lines |-> FALSE, max_empty_lines |-> 2,
     remove_trailing_whitespace |-> FALSE]

\* No build with a cleanup of its text is running.
CleanupOff ==
    /\ BUILD_CONFIG = DefaultBuildConfig
    /\ cl_pc = "off"
    /\ cl_code = <<>>
    /\ cl_config = DefaultBuildConfig
    /\ cl_default = "none"
    /\ cl_once = <<>>
    /\ cl_twice = <<>>

\* _generate_imports_code is not running.
SplitOff ==
    /\ split_pc = "off"
    /\ class_names = {}
    /\ constants = <<>>
    /\ simple_constants = <<>>
    /\ global_init = <<>>

\* No interpreter runs the split program.
LoadOff ==
    /\ ld_pc = "off"
    /\ ld_entry = "none"
    /\ ld_todo = <<>>
    /\ sys_modules = <<>>
    /\ main_namespace = <<>>

\* The text of no __init__.py is generated.
InitCodeOff ==
    /\ ic_pc = "off"
    /\ ic_todo = {}
    /\ init_code = <<>>
    /\ main_init = {}

\* No rewriting pass is applied on its own.
PassOff ==
    /\ rw_pc = "off"
    /\ rw_pass = "none"
    /\ rw_input = <<>>
    /\ rw_once = <<>>
    /\ rw_twice = <<>>

BuilderInit ==
    /\ CleanupOff
    /\ SplitOff
    /\ LoadOff
    /\ InitCodeOff
    /\ PassOff
    /\ metadata = NoMetadata
    /\ modules_order = <<>>
    /\ output = NoOutput
    /\ build_result = "none"

(***************************************************************************)
(* DependencyResolver.get_load_order                                       *)
(***************************************************************************)
\* detect_cycles is not running and _would_create_cycle was not called.
DcOff ==
    /\ cc_call = "none"
    /\ cc_result = "none"
    /\ dc_pc = "off"
    /\ dc_todo = {}
    /\ dc_stack = <<>>
    /\ dc_visited = {}
    /\ rec_stack = {}
    /\ path = <<>>
    /\ cycles = <<>>

\* The component names of the resolver's graphs, in declaration order.
Units == <<"u1", "u2", "u3">>

UnitSet == Range(Units)

\* The largest number of dependency edges of a graph.
MaxEdges == 3

EdgeCount(g) == Cardinality({e \in (DOMAIN g) \X UnitSet : e[2] \in g[e[1]]})

\* Every dict the resolver can hold: its keys are the classes and functions,
\* a dependency may also be a constant, which is no key.
Graphs ==
    {g \in UNION {[keys -> SUBSET UnitSet] : keys \in SUBSET UnitSet \ {{}}} :
        EdgeCount(g) <= MaxEdges}

\* all_components: every key and every dependency.
all_components(g) == DOMAIN g \cup UNION {g[k] : k \in DOMAIN g}

\* self.dependencies.get(component, [])
DepsOf(g, c) == IF c \in DOMAIN g THEN g[c] ELSE {}

LoInit ==
    /\ dependencies \in Graphs
    /\ lo_pc = "idle"
    /\ lo_todo = {}
    /\ lo_stack = <<>>
    /\ visited = {}
    /\ temp_visited = {}
    /\ result = <<>>
    /\ DcOff
    /\ doc = "none"
    /\ pc = "resolver"
    /\ structure = "none"
    /\ TreeInit
    /\ BuilderInit

\* get_load_order up to the outer loop: collect all_components.
LoStart ==
    /\ lo_pc = "idle"
    /\ lo_pc' = "loop"
    /\ lo_todo' = all_components(dependencies)
    /\ UNCHANGED <<dependencies, lo_stack, visited, temp_visited, result>>

\* visit(c) without the test of visited: a component is entered again.
VisitEnters_IgnoresVisited(c) == c \notin temp_visited

\* The entry of visit(c): return at once on a component that is being visited
\* (a cycle) or was visited; otherwise mark it and start on its dependencies.
VisitEnters(c) == c \notin temp_visited /\ c \notin visited

\* visit(c) without the loop over the dependencies of c.
VisitFrame_SkipsDependencies(c) == [node |-> c, todo |-> {}]

VisitFrame(c) == [node |-> c,
                  todo |-> DepsOf(dependencies, c) \cap all_components(dependencies)]

\* for component in all_components: if component not in visited: visit(component)
\* (a set is iterated in an order the program does not choose).
LoOuterNext ==
    /\ lo_pc = "loop"
    /\ lo_stack = <<>>
    /\ \E c \in lo_todo :
        /\ lo_todo' = lo_todo \ {c}
        /\ IF VisitEnters(c)
              THEN /\ temp_visited' = temp_visited \cup {c}
                   /\ lo_stack' = <<VisitFrame(c)>>
              ELSE UNCHANGED <<temp_visited, lo_stack>>
    /\ UNCHANGED <<dependencies, lo_pc, visited, result>>

\* for dep in self.dependencies.get(component, []): visit(dep)
LoVisitDep ==
    /\ lo_pc = "loop"
    /\ lo_stack # <<>>
    /\ LET n == Len(lo_stack)
           top == lo_stack[n]
       IN  /\ top.todo # {}
           /\ \E d \in top.todo :
                LET rest == [lo_stack EXCEPT ![n].todo = top.todo \ {d}]
                IN  IF VisitEnters(d)
                       THEN /\ temp_visited' = temp_visited \cup {d}
                            /\ lo_stack' = Append(rest, VisitFrame(d))
                       ELSE /\ lo_stack' = rest
                            /\ UNCHANGED temp_visited
    /\ UNCHANGED <<dependencies, lo_pc, lo_todo, visited, result>>

\* The end of visit(): temp_visited.remove(component) raises KeyError on a
\* component that is not in the set.
LoVisitReturn ==
    /\ lo_pc = "loop"
    /\ lo_stack # <<>>
    /\ LET n == Len(lo_stack)
           top == lo_stack[n]
       IN  /\ top.todo = {}
           /\ IF top.node \in temp_visited
                 THEN /\ temp_visited' = temp_visited \ {top.node}
                      /\ visited' = visited \cup {top.node}
                      /\ result' = Append(result, top.node)
                      /\ lo_stack' = SubSeq(lo_stack, 1, n - 1)
                      /\ UNCHANGED lo_pc
                 ELSE /\ lo_pc' = "raised"
                      /\ UNCHANGED <<temp_visited, visited, result, lo_stack>>
    /\ UNCHANGED <<dependencies, lo_todo>>

\* return result
LoReturn ==
    /\ lo_pc = "loop"
    /\ lo_stack = <<>>
    /\ lo_todo = {}
    /\ lo_pc' = "done"
    /\ UNCHANGED <<dependencies, lo_todo, lo_stack, visited, temp_visited, result>>

LoStep == LoStart \/ LoOuterNext \/ LoVisitDep \/ LoVisitReturn \/ LoReturn

LoNext == LoStep /\ UNCHANGED <<docvars, treevars, buildvars, sidevars, dcvars, ccvars>>

SpecLoadOrder == LoInit /\ [][LoNext]_vars /\ WF_vars(LoNext)

(***************************************************************************)
(* DependencyResolver.detect_cycles                                        *)
(***************************************************************************)
DcInit ==
    /\ dependencies \in Graphs
    /\ lo_pc = "off"
    /\ lo_todo = {}
    /\ lo_stack = <<>>
    /\ visited = {}
    /\ temp_visited = {}
    /\ result = <<>>
    /\ dc_pc = "idle"
    /\ dc_todo = {}
    /\ dc_stack = <<>>
    /\ dc_visited = {}
    /\ rec_stack = {}
    /\ path = <<>>
    /\ cycles = <<>>
    /\ cc_call = "none"
    /\ cc_result = "none"
    /\ doc = "none"
    /\ pc = "resolver"
    /\ structure = "none"
    /\ TreeInit
    /\ BuilderInit

\* detect_cycles up to the outer loop over self.dependencies.keys().
DcStart ==
    /\ dc_pc = "idle"
    /\ dc_pc' = "loop"
    /\ dc_todo' = DOMAIN dependencies
    /\ UNCHANGED <<dc_stack, dc_visited, rec_stack, path, cycles>>

\* path.index(component)
CycleStart(p, c) == CHOOSE i \in 1..Len(p) : p[i] = c /\ \A j \in 1..(i - 1) : p[j] # c

\* cycle = path[cycle_start:] + [component]
CycleOf(p, c) == Append(SubSeq(p, CycleStart(p, c), Len(p)), c)

\* cycles.append(cycle)
RecordedCycles(cs, p, c) == Append(cs, CycleOf(p, c))

\* The call dfs(c) up to its loop: a component on rec_stack closes a cycle,
\* a visited one returns, any other is marked and pushed; rest is the stack
\* of the caller.
DfsCall(c, rest) ==
    IF c \in rec_stack
    THEN /\ cycles' = RecordedCycles(cycles, path, c)
         /\ dc_stack' = rest
         /\ UNCHANGED <<dc_visited, rec_stack, path>>
    ELSE IF c \in dc_visited
    THEN /\ dc_stack' = rest
         /\ UNCHANGED <<dc_visited, rec_stack, path, cycles>>
    ELSE /\ dc_visited' = dc_visited \cup {c}
         /\ rec_stack' = rec_stack \cup {c}
         /\ path' = Append(path, c)
         /\ dc_stack' = Append(rest, [node |-> c, todo |-> DepsOf(dependencies, c)])
         /\ UNCHANGED cycles

\* for component in self.dependencies.keys():
\*     if component not in visited: dfs(component)
DcOuterNext ==
    /\ dc_pc = "loop"
    /\ dc_stack = <<>>
    /\ \E c \in dc_todo :
        /\ dc_todo' = dc_todo \ {c}
        /\ IF c \notin dc_visited
              THEN DfsCall(c, <<>>)
              ELSE UNCHANGED <<dc_stack, dc_visited, rec_stack, path, cycles>>
    /\ UNCHANGED dc_pc

\* for dep in self.dependencies.get(component, []): dfs(dep)
DcVisitDep ==
    /\ dc_pc = "loop"
    /\ dc_stack # <<>>
    /\ dc_stack[Len(dc_stack)].todo # {}
    /\ \E d \in dc_stack[Len(dc_stack)].todo :
        DfsCall(d, [dc_stack EXCEPT ![Len(dc_stack)].todo = @ \ {d}])
    /\ UNCHANGED <<dc_pc, dc_todo>>

\* The end of dfs(): rec_stack.remove(component); path.pop()
DcVisitReturn ==
    /\ dc_pc = "loop"
    /\ dc_stack # <<>>
    /\ dc_stack[Len(dc_stack)].todo = {}
    /\ rec_stack' = rec_stack \ {dc_stack[Len(dc_stack)].node}
    /\ path' = SubSeq(path, 1, Len(path) - 1)
    /\ dc_stack' = SubSeq(dc_stack, 1, Len(dc_stack) - 1)
    /\ UNCHANGED <<dc_pc, dc_todo, dc_visited, cycles>>

\* return cycles
DcReturn ==
    /\ dc_pc = "loop"
    /\ dc_stack = <<>>
    /\ dc_todo = {}
    /\ dc_pc' = "done"
    /\ UNCHANGED <<dc_todo, dc_stack, dc_visited, rec_stack, path, cycles>>

DcStep == DcStart \/ DcOuterNext \/ DcVisitDep \/ DcVisitReturn \/ DcReturn

DcNext ==
    /\ DcStep
    /\ UNCHANGED <<dependencies, lo_pc, lo_todo, lo_stack, visited, temp_visited, result>>
    /\ UNCHANGED <<docvars, treevars, buildvars, sidevars, ccvars>>

SpecCycles == DcInit /\ [][DcNext]_vars

(***************************************************************************)
(* Strings                                                                 *)
(*                                                                         *)
(* The program lower-cases names, tests prefixes and substrings and sorts  *)
(* paths, so a string is the sequence of its characters.                   *)
(***************************************************************************)
\* The identifiers of the documents.
Spelling(n) ==
    CASE n = "Base" -> <<"B", "a", "s", "e">>
      [] n = "base" -> <<"b", "a", "s", "e">>
      [] n = "JobHandler" -> <<"J", "o", "b", "H", "a", "n", "d", "l", "e", "r">>
      [] n = "Alpha" -> <<"A", "l", "p", "h", "a">>
      [] n = "helper" -> <<"h", "e", "l", "p", "e", "r">>
      [] n = "other" -> <<"o", "t", "h", "e", "r">>
      [] n = "main" -> <<"m", "a", "i", "n">>
      [] n = "Main" -> <<"M", "a", "i", "n">>
      [] n = "run_job" -> <<"r", "u", "n", "_", "j", "o", "b">>
      [] n = "Run_job" -> <<"R", "u", "n", "_", "j", "o", "b">>
      [] n = "cleanup_job" -> <<"c", "l", "e", "a", "n", "u", "p", "_", "j", "o", "b">>
      [] n = "VERSION" -> <<"V", "E", "R", "S", "I", "O", "N">>
      [] n = "os" -> <<"o", "s">>
      [] n = "" -> <<>>

\* The characters of names and paths in the order of their code points.
Chars ==
    <<"*", ".", "/",
      "A", "B", "C", "D", "E", "F", "G", "H", "I", "J", "K", "L", "M",
      "N", "O", "P", "Q", "R", "S", "T", "U", "V", "W", "X", "Y", "Z",
      "_",
      "a", "b", "c", "d", "e", "f", "g", "h", "i", "j", "k", "l", "m",
      "n", "o", "p", "q", "r", "s", "t", "u", "v", "w", "x", "y", "z">>

\* The place of a character in Chars: it orders as ord() does.
Ord(c) == CHOOSE i \in 1..Len(Chars) : Chars[i] = c

IsUpper(c) == Ord(c) \in 4..29

IsLower(c) == Ord(c) \in 31..56

\* str.lower()
LowerStr(w) ==
    [i \in 1..Len(w) |-> IF IsUpper(w[i]) THEN Chars[Ord(w[i]) + 27] ELSE w[i]]

\* str.startswith(p)
StartsWith(w, p) == Len(p) <= Len(w) /\ SubSeq(w, 1, Len(p)) = p

\* p in w
Contains(w, p) ==
    \E i \in 0..(Len(w) - Len(p)) : SubSeq(w, i + 1, i + Len(p)) = p

\* str.replace(c, '')
RECURSIVE Without(_, _)
Without(w, c) ==
    IF w = <<>> THEN <<>>
    ELSE IF Head(w) = c THEN Without(Tail(w), c)
         ELSE <<Head(w)>> \o Without(Tail(w), c)

\* a < b for two strings: the order of sorted().
RECURSIVE StrLess(_, _)
StrLess(a, b) ==
    IF b = <<>> THEN FALSE
    ELSE IF a = <<>> THEN TRUE
    ELSE IF Head(a) = Head(b) THEN StrLess(Tail(a), Tail(b))
    ELSE Ord(Head(a)) < Ord(Head(b))

\* The last position of the run of lower-case letters that starts at i.
RECURSIVE LowerRunEnd(_, _)
LowerRunEnd(w, i) ==
    IF i < Len(w) /\ IsLower(w[i + 1]) THEN LowerRunEnd(w, i + 1) ELSE i

\* re.sub('(.)([A-Z][a-z]+)', r'\1_\2', w) from position i on.
RECURSIVE SnakeFirst(_, _)
SnakeFirst(w, i) ==
    IF i > Len(w) THEN <<>>
    ELSE IF i + 2 <= Len(w) /\ IsUpper(w[i + 1]) /\ IsLower(w[i + 2])
         THEN <<w[i], "_">> \o SubSeq(w, i + 1, LowerRunEnd(w, i + 2))
              \o SnakeFirst(w, LowerRunEnd(w, i + 2) + 1)
         ELSE <<w[i]>> \o SnakeFirst(w, i + 1)

\* re.sub('([a-z0-9])([A-Z])', r'\1_\2', w) from position i on.
RECURSIVE SnakeSecond(_, _)
SnakeSecond(w, i) ==
    IF i > Len(w) THEN <<>>
    ELSE IF i + 1 <= Len(w) /\ IsLower(w[i]) /\ IsUpper(w[i + 1])
         THEN <<w[i], "_", w[i + 1]>> \o SnakeSecond(w, i + 2)
         ELSE <<w[i]>> \o SnakeSecond(w, i + 1)

\* _class_name_to_module_name: CamelCase -> snake_case.
class_name_to_module_name(w) == LowerStr(SnakeSecond(SnakeFirst(w, 1), 1))

\* component_snake of _replace_internal_imports: the first character lowered,
\* every later character that is no lower-case letter lowered behind a "_".
RECURSIVE SnakeTail(_)
SnakeTail(w) ==
    IF w = <<>> THEN <<>>
    ELSE (IF IsLower(Head(w)) THEN <<Head(w)>> ELSE <<"_">> \o LowerStr(<<Head(w)>>))
         \o SnakeTail(Tail(w))

component_snake(w) ==
    IF w = <<>> THEN <<>> ELSE LowerStr(<<Head(w)>>) \o SnakeTail(Tail(w))

\* The fixed strings of the program: names of files, directories and
\* categories, prefixes of function names and of accessors.
Str ==
    [utils |-> <<"u", "t", "i", "l", "s">>,
     main |-> <<"m", "a", "i", "n">>,
     imports |-> <<"i", "m", "p", "o", "r", "t", "s">>,
     config |-> <<"c", "o", "n", "f", "i", "g">>,
     init |-> <<"i", "n", "i", "t">>,
     dunder_init |-> <<"_", "_", "i", "n", "i", "t", "_", "_">>,
     runner_functions |-> <<"r", "u", "n", "n", "e", "r", "_", "f", "u", "n", "c", "t", "i", "o", "n", "s">>,
     cleanup |-> <<"c", "l", "e", "a", "n", "u", "p">>,
     run_ |-> <<"r", "u", "n", "_">>,
     cleanup_ |-> <<"c", "l", "e", "a", "n", "u", "p", "_">>,
     get_ |-> <<"_", "g", "e", "t", "_">>,
     star |-> <<"*">>,
     py |-> <<".", "p", "y">>,
     slash |-> <<"/">>,
     core |-> <<"c", "o", "r", "e">>,
     handlers |-> <<"h", "a", "n", "d", "l", "e", "r", "s">>,
     managers |-> <<"m", "a", "n", "a", "g", "e", "r", "s">>,
     gui |-> <<"g", "u", "i">>,
     models |-> <<"m", "o", "d", "e", "l", "s">>,
     analyzers |-> <<"a", "n", "a", "l", "y", "z", "e", "r", "s">>,
     loggers |-> <<"l", "o", "g", "g", "e", "r", "s">>,
     logging |-> <<"l", "o", "g", "g", "i", "n", "g">>]

(***************************************************************************)
(* The source document                                                     *)
(*                                                                         *)
(* A document is a sequence of top-level statements.  A statement keeps    *)
(* what the program reads from its text:                                   *)
(*   kind     "import", "assign", "class", "def", "other" (any other       *)
(*            statement, such as an if block), "blank" (blank or comment)  *)
(*   name     the module imported, or the name bound, spelled as the       *)
(*            sequence of its characters                                   *)
(*   deco     the number of decorator lines above a class or def           *)
(*   base     the base class of a class, <<>> for none                     *)
(*   uses     the names the body loads (called or read)                    *)
(*   methods  the methods of a class                                       *)
(*   srcimp   the names the body imports from the document itself, one     *)
(*            nested line "from <document> import X" each                  *)
(* A class or def is laid out as: decorator lines, the header line, one    *)
(* line per method, the nested import lines, one last body line.           *)
(***************************************************************************)
Stmt(kind, name, deco, base, uses, methods, srcimp) ==
    [kind |-> kind, name |-> name, deco |-> deco, base |-> base,
     uses |-> uses, methods |-> methods, srcimp |-> srcimp]

\* The module name of the document (source_module_name).
SourceModule == <<"d", "o", "c">>

BodyHeight(s) ==
    CASE s.kind \in {"class", "def"} ->
            1 + Cardinality(s.methods) + Len(s.srcimp) + 1
      [] s.kind = "other" -> 2
      [] OTHER -> 1

Height(s) == s.deco + BodyHeight(s)

RECURSIVE SumHeights(_, _)
SumHeights(stmts, n) ==
    IF n = 0 THEN 0 ELSE SumHeights(stmts, n - 1) + Height(stmts[n])

\* The first line of statement i, decorators included.
FirstLine(stmts, i) == 1 + SumHeights(stmts, i - 1)

\* node.lineno of a class or def is the line of its header, below its
\* decorators (Python 3.8 and later).
LineNo(stmts, i) == FirstLine(stmts, i) + stmts[i].deco

\* node.end_lineno
EndLineNo(stmts, i) == FirstLine(stmts, i) + Height(stmts[i]) - 1

\* The line of the k-th nested import of statement i.
NestedImportLine(stmts, i, k) ==
    LineNo(stmts, i) + Cardinality(stmts[i].methods) + k

\* The numbers of a set in ascending order.
RECURSIVE Ascending(_)
Ascending(S) ==
    IF S = {} THEN <<>>
    ELSE LET m == CHOOSE x \in S : \A y \in S : x <= y
         IN  <<m>> \o Ascending(S \ {m})

\* The positions of the statements of the given kinds, in source order.
KindIdx(stmts, kinds) == Ascending({i \in 1..Len(stmts) : stmts[i].kind \in kinds})

RECURSIVE Flatten(_)
Flatten(ss) == IF ss = <<>> THEN <<>> ELSE Head(ss) \o Flatten(Tail(ss))

(***************************************************************************)
(* CodeParser                                                              *)
(***************************************************************************)
\* lines[start_line - 1:end_line]: the text from the header line on, which
\* leaves the decorator lines out.
CodeOf(s) == [s EXCEPT !.deco = 0]

\* get_imports: ast.walk reaches the imports of the top level first and the
\* imports nested in bodies after them.
get_imports(stmts) ==
    LET top == KindIdx(stmts, {"import"})
        inner == KindIdx(stmts, {"class", "def"})
    IN  [k \in 1..Len(top) |->
            [type |-> "import", module |-> stmts[top[k]].name, name |-> <<>>,
             line |-> LineNo(stmts, top[k])]]
        \o
        Flatten([k \in 1..Len(inner) |->
            [j \in 1..Len(stmts[inner[k]].srcimp) |->
                [type |-> "from_import", module |-> SourceModule,
                 name |-> stmts[inner[k]].srcimp[j],
                 line |-> NestedImportLine(stmts, inner[k], j)]]])

\* get_classes: the ClassDef nodes of tree.body.
get_classes(stmts) ==
    LET idx == KindIdx(stmts, {"class"})
    IN  [k \in 1..Len(idx) |->
            LET s == stmts[idx[k]]
            IN  [name |-> s.name,
                 bases |-> IF s.base = <<>> THEN {} ELSE {s.base},
                 methods |-> s.methods,
                 start_line |-> LineNo(stmts, idx[k]),
                 end_line |-> EndLineNo(stmts, idx[k]),
                 code |-> CodeOf(s)]]

\* class_methods: the names of the methods of every class.
class_methods(stmts) ==
    UNION {stmts[i].methods : i \in {j \in 1..Len(stmts) : stmts[j].kind = "class"}}

\* get_functions: the FunctionDef nodes of tree.body whose name is not the
\* name of a method of some class.
get_functions(stmts) ==
    LET idx == Ascending({i \in 1..Len(stmts) :
                    /\ stmts[i].kind = "def"
                    /\ stmts[i].name \notin class_methods(stmts)})
    IN  [k \in 1..Len(idx) |->
            LET s == stmts[idx[k]]
            IN  [name |-> s.name,
                 start_line |-> LineNo(stmts, idx[k]),
                 end_line |-> EndLineNo(stmts, idx[k]),
                 code |-> CodeOf(s)]]

\* get_constants: the Assign nodes of tree.body with a Name target.
get_constants(stmts) ==
    LET idx == KindIdx(stmts, {"assign"})
    IN  [k \in 1..Len(idx) |->
            LET s == stmts[idx[k]]
            IN  [name |-> s.name,
                 line |-> LineNo(stmts, idx[k]),
                 end_line |-> EndLineNo(stmts, idx[k]),
                 code |-> CodeOf(s)]]

Names(entries) == {entries[k].name : k \in 1..Len(entries)}

\* get_usages: the names loaded in a piece of code (ast.Name with ctx Load).
get_usages(code) == code.uses \cup (IF code.base = <<>> THEN {} ELSE {code.base})

\* get_all_usages: for every component the components it loads, itself left
\* out; a component that loads none has no entry.
get_all_usages(stmts) ==
    LET comps == Flatten(<<get_classes(stmts), get_functions(stmts),
                           get_constants(stmts)>>)
        all == Names(comps)
        Used(n) == LET k == CHOOSE j \in 1..Len(comps) :
                                /\ comps[j].name = n
                                /\ \A l \in (j + 1)..Len(comps) : comps[l].name # n
                   IN  (get_usages(comps[k].code) \cap all) \ {n}
    IN  [n \in {m \in all : Used(m) # {}} |-> Used(n)]

\* get_structure
get_structure(stmts) ==
    [imports |-> get_imports(stmts),
     classes |-> get_classes(stmts),
     functions |-> get_functions(stmts),
     constants |-> get_constants(stmts),
     usages |-> get_all_usages(stmts)]

(***************************************************************************)
(* SpecParse: CodeParser on every document of at most MaxStmts statements  *)
(***************************************************************************)
\* The largest number of top-level statements of a document.
MaxStmts == 3

NoBody(kind, name) == Stmt(kind, Spelling(name), 0, <<>>, {}, {}, <<>>)

\* The statements of the documents handed to the parser alone: they vary
\* the line layout (decorators, methods, nested imports, other statements).
ParseStmts ==
    {NoBody("import", "os"), NoBody("assign", "VERSION"),
     NoBody("other", ""), NoBody("blank", "")}
    \cup {Stmt("class", Spelling("Alpha"), d, <<>>, {}, m, <<>>) :
            d \in 0..1, m \in {{}, {Spelling("helper")}}}
    \cup {Stmt("def", Spelling("helper"), d, <<>>, {}, {}, <<>>) : d \in 0..1}
    \cup {Stmt("def", Spelling("other"), 0, <<>>, {Spelling("helper")}, {},
                <<Spelling("helper")>>)}

Binds(s) == s.kind \in {"assign", "class", "def"}

\* No name is bound twice at the top level.
DistinctNames(stmts) ==
    \A i, j \in 1..Len(stmts) :
        (i # j /\ Binds(stmts[i]) /\ Binds(stmts[j])) => stmts[i].name # stmts[j].name

Docs(universe) ==
    {[parseable |-> ok, stmts |-> ss] :
        ok \in BOOLEAN,
        ss \in {t \in UNION {[1..n -> universe] : n \in 0..MaxStmts} :
                    DistinctNames(t)}}

NoStructure == "none"

LoOff ==
    /\ dependencies = <<>>
    /\ lo_pc = "off"
    /\ lo_todo = {}
    /\ lo_stack = <<>>
    /\ visited = {}
    /\ temp_visited = {}
    /\ result = <<>>
    /\ DcOff

ParseInit ==
    /\ LoOff
    /\ doc \in Docs(ParseStmts)
    /\ pc = "start"
    /\ structure = NoStructure
    /\ TreeInit
    /\ BuilderInit

\* CodeParser.parse: ast.parse raises SyntaxError on a document that is not
\* valid Python, and parse returns False with ast_tree left None.
ParserParse ==
    /\ pc = "start"
    /\ pc' = IF doc.parseable THEN "parsed" ELSE "parse_failed"
    /\ UNCHANGED <<doc, structure>>

\* CodeParser.get_structure: every get_* returns an empty list when there
\* is no ast_tree.
ParserGetStructure ==
    /\ pc \in {"parsed", "parse_failed"}
    /\ structure' = IF pc = "parsed" THEN get_structure(doc.stmts)
                                     ELSE get_structure(<<>>)
    /\ pc' = "extracted"
    /\ UNCHANGED doc

ParseNext ==
    (ParserParse \/ ParserGetStructure) /\ UNCHANGED <<lovars, treevars, buildvars, sidevars>>

SpecParse == ParseInit /\ [][ParseNext]_vars

\* The line ranges of the extracted units: classes, functions, bindings and
\* import statements, one entry per extracted unit.
ExtractedRanges(st) ==
    [k \in 1..Len(st.classes) |-> <<st.classes[k].start_line, st.classes[k].end_line>>]
    \o [k \in 1..Len(st.functions) |-> <<st.functions[k].start_line, st.functions[k].end_line>>]
    \o [k \in 1..Len(st.constants) |-> <<st.constants[k].line, st.constants[k].end_line>>]
    \o [k \in 1..Len(st.imports) |-> <<st.imports[k].line, st.imports[k].line>>]

\* The lines of the document that belong to a top-level statement and are
\* neither blank nor comment.
CodeLines(stmts) ==
    UNION {FirstLine(stmts, i)..EndLineNo(stmts, i) :
            i \in {j \in 1..Len(stmts) : stmts[j].kind # "blank"}}

RangesDisjoint(st) ==
    LET r == ExtractedRanges(st)
    IN  \A i, j \in 1..Len(r) : i < j => (r[i][2] < r[j][1] \/ r[j][2] < r[i][1])

RangesCover(st, stmts) ==
    UNION {r[1]..r[2] : r \in Range(ExtractedRanges(st))} = CodeLines(stmts)

(***************************************************************************)
(* C4: the line ranges the parser extracts from a parseable document are   *)
(* pairwise disjoint and together cover every non-blank, non-comment       *)
(* top-level line, decorated definitions included.                         *)
(***************************************************************************)
C4_RangesDisjointAndCover ==
    (pc = "extracted" /\ doc.parseable) =>
        (RangesDisjoint(structure) /\ RangesCover(structure, doc.stmts))

(***************************************************************************)
(* DependencyResolver.resolve                                              *)
(***************************************************************************)
\* The last entry of a list of components that has the given name.
EntryOf(entries, n) ==
    entries[CHOOSE k \in 1..Len(entries) :
                /\ entries[k].name = n
                /\ \A l \in (k + 1)..Len(entries) : entries[l].name # n]

\* The names a regular expression \bname\b finds in a piece of code.
Words(code) ==
    {code.name} \cup code.uses \cup code.methods \cup Range(code.srcimp)
    \cup (IF code.base = <<>> THEN {} ELSE {code.base})

all_component_names(st) ==
    Names(st.classes) \cup Names(st.functions) \cup Names(st.constants)

UsagesOf(st, n) == IF n \in DOMAIN st.usages THEN st.usages[n] ELSE {}

\* _analyze_classes: the bases, the usages and the names found in the code.
ClassDependencies(st, cls) ==
    (cls.bases \cap all_component_names(st))
    \cup (UsagesOf(st, cls.name) \cap all_component_names(st))
    \cup ((Words(cls.code) \cap all_component_names(st)) \ {cls.name})

\* _analyze_functions: the usages and the names found in the code.
FunctionDependencies(st, func) ==
    (UsagesOf(st, func.name) \cap all_component_names(st))
    \cup ((Words(func.code) \cap all_component_names(st)) \ {func.name})

\* resolve: the classes are analysed first, the functions after them.
resolve(st) ==
    [n \in Names(st.classes) \cup Names(st.functions) |->
        IF n \in Names(st.functions)
        THEN FunctionDependencies(st, EntryOf(st.functions, n))
        ELSE ClassDependencies(st, EntryOf(st.classes, n))]

(***************************************************************************)
(* Rebuilder: categories, paths and the cycle test                         *)
(***************************************************************************)
\* _determine_category on the lower-cased name.
CategoryOfLower(w) ==
    IF Contains(w, <<"h", "a", "n", "d", "l", "e", "r">>) THEN Str.handlers
    ELSE IF \/ Contains(w, <<"m", "a", "n", "a", "g", "e", "r">>)
            \/ Contains(w, <<"m", "o", "n", "i", "t", "o", "r">>) THEN Str.managers
    ELSE IF \/ Contains(w, <<"g", "u", "i">>)
            \/ Contains(w, <<"w", "i", "n", "d", "o", "w">>)
            \/ Contains(w, <<"d", "i", "a", "l", "o", "g">>) THEN Str.gui
    ELSE IF \/ Contains(w, <<"u", "t", "i", "l">>)
            \/ Contains(w, <<"h", "e", "l", "p", "e", "r">>) THEN Str.utils
    ELSE IF Contains(w, <<"m", "o", "d", "e", "l">>) THEN Str.models
    ELSE IF \/ Contains(w, <<"a", "n", "a", "l", "y", "z", "e", "r">>)
            \/ Contains(w, <<"c", "h", "e", "c", "k", "e", "r">>) THEN Str.analyzers
    ELSE IF \/ Contains(w, <<"l", "o", "g">>)
            \/ Contains(w, <<"l", "o", "g", "g", "e", "r">>) THEN Str.loggers
    ELSE Str.core

\* _determine_category
determine_category(n) == CategoryOfLower(LowerStr(n))

\* _get_project_categories
get_project_categories(st) ==
    {determine_category(st.classes[k].name) : k \in 1..Len(st.classes)}
    \cup (IF st.functions # <<>> THEN {Str.utils} ELSE {})
    \cup (IF st.constants # <<>> THEN {Str.config} ELSE {})

\* A file of the bucket tree is named by its directory (<<>> for the
\* destination itself) and its name without ".py".
Path(dir, stem) == <<dir, stem>>

\* module_mapping after the class loop of _distribute_components: the class
\* names in source order, each with the path of its file.
ModuleMapping(st) ==
    [k \in 1..Len(st.classes) |->
        [name |-> st.classes[k].name,
         path |-> Path(determine_category(st.classes[k].name), st.classes[k].name)]]

\* self.dependency_graph.get(n, [])
GraphDeps(g, n) == IF n \in DOMAIN g THEN g[n] ELSE {}

\* The components reachable from the set S along the dependency graph.
RECURSIVE Reach(_, _)
Reach(g, S) ==
    LET T == S \cup UNION {GraphDeps(g, n) : n \in S}
    IN  IF T = S THEN S ELSE Reach(g, T)

\* _would_create_cycle: is there a path from to_class to from_class?
would_create_cycle(g, from_class, to_class) ==
    /\ from_class # <<>>
    /\ to_class # <<>>
    /\ from_class \in Reach(g, {to_class})

(***************************************************************************)
(* Rebuilder: the text of a generated file                                 *)
(*                                                                         *)
(* A generated file keeps what the passes over its text read and write:    *)
(*   kind       "class", "main", "runner", "cleanup", "utils", "prelude",  *)
(*              "init", "launcher", "pkginit"                              *)
(*   units      the code of the units it defines, in order                 *)
(*   imports    its import lines of the prelude and of files of the tree:  *)
(*              the module (a Path), the name, nested (indented) or not    *)
(*   commented  the import lines that were turned into comments            *)
(*   getters    the classes X that have an accessor _get_<x>() in the file *)
(*   rewritten  the classes whose calls go through an accessor             *)
(*   active     the classes whose accessor has its import line as code,    *)
(*              not as a comment                                           *)
(*   deferred   the names the prelude initialises to None                  *)
(***************************************************************************)
Import(pkg, mod, name, nested) ==
    [module |-> Path(pkg, mod), name |-> name, nested |-> nested]

\* The line "from imports import *" of every header.
StarImport == Import(<<>>, Str.imports, Str.star, FALSE)

Content(kind, units, imports) ==
    [kind |-> kind, units |-> units, imports |-> imports, commented |-> {},
     getters |-> {}, rewritten |-> {}, active |-> {}, deferred |-> {}]

\* What a function returns that fell off its end without a return statement.
None == [kind |-> "None"]

IsNone(c) == c.kind = "None"

Line(i) == [module |-> i.module, name |-> i.name]

\* The names of the source-module imports still in the code of the units.
Pending(c) == UNION {Range(c.units[k].srcimp) : k \in 1..Len(c.units)}

\* The import lines of the text, commented ones included.
ImportLines(c) ==
    {Line(i) : i \in c.imports} \cup c.commented
    \cup {[module |-> Path(<<>>, SourceModule), name |-> x] : x \in Pending(c)}

\* n in line, for an import line.
InLine(i, n) ==
    Contains(i.module[1], n) \/ Contains(i.module[2], n) \/ Contains(i.name, n)

\* any(n in line and ('import' in line or 'from' in line) for line in ...)
HasImportText(c, n) == \E i \in ImportLines(c) : InLine(i, n)

\* Name nodes with ctx Load: the calls that were not rewritten, the bases,
\* and the name each accessor returns.
UsedNames(c) ==
    UNION {(c.units[k].uses \ c.rewritten)
            \cup (IF c.units[k].base = <<>> THEN {} ELSE {c.units[k].base}) :
           k \in 1..Len(c.units)}
    \cup c.getters

BaseClasses(c) ==
    {c.units[k].base : k \in {j \in 1..Len(c.units) : c.units[j].base # <<>>}}

\* n in content
InContent(c, n) ==
    \/ \E k \in 1..Len(c.units) : \E t \in Words(c.units[k]) : Contains(t, n)
    \/ HasImportText(c, n)
    \/ \E x \in c.getters : Contains(x, n)

\* The test of _replace_internal_imports for a deferred import of class x.
ShouldUseLazy(st, g, component_name, x) ==
    IF component_name = Str.utils
    THEN \E f \in Names(st.functions) :
            /\ f \in DOMAIN g
            /\ x \in g[f]
            /\ x \in DOMAIN g
            /\ g[x] \cap Names(st.functions) # {}
    ELSE would_create_cycle(g, component_name, x)

\* The line that replaces "from <document> import x" for a class x of
\* category cat.  The text _replace_with_lazy_import returns is assigned to
\* a variable that is not read again, so a deferred import only drops the
\* line.
ReplaceClassImport(st, g, current_category, component_name, x, cat) ==
    IF cat = current_category /\ x = Without(LowerStr(component_name), "_")
    THEN {}
    ELSE IF ShouldUseLazy(st, g, component_name, x) THEN {}
    ELSE {Import(cat, x, x, TRUE)}

\* _replace_internal_imports on one line "from <document> import x": the
\* lines that replace it.
ReplaceSourceImport(st, g, current_category, component_name, x) ==
    IF x \in Names(st.classes)
    THEN ReplaceClassImport(st, g, current_category, component_name, x,
                            determine_category(x))
    ELSE IF x \in Names(st.functions) THEN {Import(Str.utils, Str.utils, x, TRUE)}
    ELSE IF x \in Names(st.constants) THEN {Import(<<>>, Str.imports, x, TRUE)}
    ELSE {}

\* _replace_internal_imports on one line "from a.b import x" that is there
\* already: is the line kept?
KeepDottedImport(st, g, current_category, component_name, i) ==
    \/ i.module[1] = <<>>
    \/ /\ ~(i.name \in Names(st.classes) /\ ShouldUseLazy(st, g, component_name, i.name))
       /\ ~(i.module[1] = current_category /\ i.module[2] = component_snake(component_name))

\* _replace_internal_imports over the text of a file.
replace_internal_imports(c, st, g, current_category, component_name) ==
    [c EXCEPT
        !.imports =
            {i \in c.imports :
                KeepDottedImport(st, g, current_category, component_name, i)}
            \cup UNION {ReplaceSourceImport(st, g, current_category, component_name, x) :
                            x \in Pending(c)},
        !.units = [k \in 1..Len(c.units) |-> [c.units[k] EXCEPT !.srcimp = <<>>]]]

\* The import lines "from utils.utils import f" of a text.
UtilsImportsOf(c, f) ==
    {i \in c.imports : i.module = Path(Str.utils, Str.utils) /\ i.name = f}

\* _remove_circular_function_imports: the return statement stands inside the
\* loop over the functions, so only the first function is looked at, and
\* with no function at all the end of the body is reached.
remove_circular_function_imports(c, st, g, component_name) ==
    IF st.functions = <<>> THEN None
    ELSE IF component_name \in DOMAIN g /\ st.functions[1].name \in g[component_name]
    THEN [c EXCEPT
            !.imports = @ \ UtilsImportsOf(c, st.functions[1].name),
            !.commented = @ \cup {Line(i) : i \in UtilsImportsOf(c, st.functions[1].name)}]
    ELSE c

\* The name of the accessor of class x: '_get_' + x.lower()
GetterName(x) == Str.get_ \o LowerStr(x)

\* getter_name in content
GetterPresent(c, x) ==
    \E y \in c.getters : Contains(GetterName(y), GetterName(x))

\* _replace_with_lazy_import for the import line given and the result of
\* the test "getter_name in content".  The accessor is inserted with the
\* import line in its body; the substitution that follows turns every
\* occurrence of the line in the text into a comment.
LazyImport(c, x, line, present) ==
    [c EXCEPT
        !.getters = IF present THEN @ ELSE @ \cup {x},
        !.active = {y \in (IF present THEN @ ELSE @ \cup {x}) :
                        [module |-> Path(determine_category(y), y), name |-> y] # line},
        !.imports = {i \in @ : Line(i) # line},
        !.commented = IF present /\ line \notin {Line(i) : i \in c.imports}
                      THEN @ ELSE @ \cup {line},
        !.rewritten = @ \cup {x}]

\* The line "from <category>.<x> import x".
ClassImportLine(x) == [module |-> Path(determine_category(x), x), name |-> x]

\* _replace_with_lazy_import: add the accessor unless its name occurs in the
\* text, turn every line "from <category>.<x> import x" into a comment, the
\* line inside the accessor included, and route the calls of x through the
\* accessor.
replace_with_lazy_import(c, x) ==
    LazyImport(c, x, ClassImportLine(x), GetterPresent(c, x))

\* A deferred import inside _add_missing_imports: after
\* _replace_with_lazy_import the text of the import line is deleted
\* wherever it still stands, comments included.
DeferClass(c, x) ==
    [replace_with_lazy_import(c, x) EXCEPT !.commented = @ \ {ClassImportLine(x)}]

\* The classes of a set are deferred one after the other; the result does
\* not depend on the order when no accessor name contains another one.
RECURSIVE DeferAll(_, _)
DeferAll(c, xs) ==
    IF xs = {} THEN c
    ELSE LET x == CHOOSE y \in xs : TRUE
         IN  DeferAll(DeferClass(c, x), xs \ {x})

\* The functions _add_missing_imports takes for functions of utils/utils.py
\* and of utils/runner_functions.py: the tests read the name as it is spelled.
UtilsFunctionNames(st) ==
    {f \in Names(st.functions) :
        ~StartsWith(f, Str.run_) /\ ~StartsWith(f, Str.cleanup_) /\ f # Str.main}

RunnerFunctionNames(st) == {f \in Names(st.functions) : StartsWith(f, Str.run_)}

\* Is class n the module being processed?
SelfModule(n, category, module_name) ==
    determine_category(n) = category /\ n = module_name

\* The classes _add_missing_imports defers: a used class whose import would
\* close a cycle, and in utils/utils.py every used class.
DeferredClasses(c, st, g, category, component_name, module_name) ==
    {n \in UsedNames(c) \cap Names(st.classes) :
        /\ ~SelfModule(n, category, module_name)
        /\ \/ would_create_cycle(g, component_name, n)
           \/ (category = Str.utils /\ component_name = Str.utils)}

\* The base classes imported directly.
BaseAdds(c, st, g, category, component_name, module_name) ==
    {n \in BaseClasses(c) \cap Names(st.classes) :
        /\ ~SelfModule(n, category, module_name)
        /\ ~would_create_cycle(g, component_name, n)
        /\ ~HasImportText(c, n)}

\* The used classes imported directly: d is the text after the deferrals.
UsedAdds(c, d, deferred, st, category, module_name) ==
    {n \in (UsedNames(c) \cap Names(st.classes)) \ deferred :
        ~SelfModule(n, category, module_name) /\ ~HasImportText(d, n)}

\* is_circular of the loop over the functions of utils/utils.py
IsCircular(st, g, component_name) ==
    /\ component_name \notin {<<>>, Str.main, Str.utils}
    /\ component_name \notin Names(st.classes)
    /\ Str.utils \in DOMAIN g
    /\ component_name \in g[Str.utils]

\* The functions of utils/utils.py imported directly.
UtilsAdds(c, d, st, g, component_name) ==
    {f \in UtilsFunctionNames(st) :
        /\ f \in UsedNames(c) \/ InContent(d, f)
        /\ ~(\E i \in ImportLines(d) : InLine(i, f) /\ InLine(i, Str.utils))
        /\ \/ component_name = Str.main
           \/ (~IsCircular(st, g, component_name) /\ component_name # Str.utils)}

\* The functions of utils/runner_functions.py imported directly.
RunnerAdds(c, d, st, component_name) ==
    {f \in RunnerFunctionNames(st) :
        /\ f \in UsedNames(c) \/ InContent(d, f)
        /\ ~(\E i \in ImportLines(d) : InLine(i, f) /\ InLine(i, Str.runner_functions))
        /\ component_name \notin {Str.runner_functions, Str.utils}}

\* The text with the import lines inserted.
InsertImports(d, classes, utils_functions, runner_functions) ==
    [d EXCEPT !.imports =
        @ \cup {Import(determine_category(n), n, n, FALSE) : n \in classes}
          \cup {Import(Str.utils, Str.utils, f, FALSE) : f \in utils_functions}
          \cup {Import(Str.utils, Str.runner_functions, f, FALSE) : f \in runner_functions}]

\* _add_missing_imports after the deferrals: d is the text with the classes
\* of deferred routed through accessors.
AddAfterDefer(c, d, deferred, st, g, category, component_name, module_name) ==
    InsertImports(d,
        BaseAdds(c, st, g, category, component_name, module_name)
            \cup UsedAdds(c, d, deferred, st, category, module_name),
        UtilsAdds(c, d, st, g, component_name),
        RunnerAdds(c, d, st, component_name))

\* _add_missing_imports for the set of classes it defers.
AddWithDeferred(c, deferred, st, g, category, component_name, module_name) ==
    AddAfterDefer(c, DeferAll(c, deferred), deferred, st, g, category,
                  component_name, module_name)

\* _add_missing_imports for the module name of the component.
AddForModule(c, st, g, category, component_name, module_name) ==
    AddWithDeferred(c,
        DeferredClasses(c, st, g, category, component_name, module_name),
        st, g, category, component_name, module_name)

\* _add_missing_imports; a text that is None raises inside the try block and
\* is handed back.
add_missing_imports(c, st, g, category, component_name) ==
    IF IsNone(c) THEN c
    ELSE AddForModule(c, st, g, category, component_name,
                      class_name_to_module_name(component_name))

(***************************************************************************)
(* Rebuilder._would_create_cycle as the code computes it                   *)
(***************************************************************************)
\* The lists that hold every element of the set S once.
ListsOf(S) == {s \in [1..Cardinality(S) -> S] : Range(s) = S}

\* The dependency graphs with their lists of dependencies in every order.
ListedGraphs(g) == {adj \in [DOMAIN g -> UNION {ListsOf(g[k]) : k \in DOMAIN g}] :
                        \A k \in DOMAIN g : adj[k] \in ListsOf(g[k])}

\* self.dependency_graph.get(start, [])
ListedDeps(adj, c) == IF c \in DOMAIN adj THEN adj[c] ELSE <<>>

RECURSIVE has_path_to(_, _, _, _)
RECURSIVE ScanDeps(_, _, _, _)

\* The loop of has_path_to that returns after the first dependency.
ScanDeps_FirstOnly(adj, deps, target, seen) ==
    IF deps = <<>> THEN [found |-> FALSE, seen |-> seen]
    ELSE has_path_to(adj, Head(deps), target, seen)

\* for dep in ...: if has_path_to(dep, target): return True
\* return False
ScanDeps(adj, deps, target, seen) ==
    IF deps = <<>> THEN [found |-> FALSE, seen |-> seen]
    ELSE LET r == has_path_to(adj, Head(deps), target, seen)
         IN  IF r.found THEN r ELSE ScanDeps(adj, Tail(deps), target, r.seen)

\* has_path_to(start, target); seen is the set visited, which the calls
\* share, and the result carries it back.
has_path_to(adj, start, target, seen) ==
    IF start = target THEN [found |-> TRUE, seen |-> seen]
    ELSE IF start \in seen THEN [found |-> FALSE, seen |-> seen]
    ELSE ScanDeps(adj, ListedDeps(adj, start), target, seen \cup {start})

\* _would_create_cycle(from_class, to_class) for two non-empty names.
WouldCreateCycle(adj, from_class, to_class) ==
    has_path_to(adj, to_class, from_class, {}).found

CcInit ==
    /\ dependencies \in Graphs
    /\ lo_pc = "off"
    /\ lo_todo = {}
    /\ lo_stack = <<>>
    /\ visited = {}
    /\ temp_visited = {}
    /\ result = <<>>
    /\ DcOff
    /\ doc = "none"
    /\ pc = "resolver"
    /\ structure = "none"
    /\ TreeInit
    /\ BuilderInit

\* One call of _would_create_cycle on the graph.
CycleCheckCall ==
    /\ \E adj \in ListedGraphs(dependencies) :
        \E a, b \in UnitSet :
            /\ cc_call' = [graph |-> adj, from_class |-> a, to_class |-> b]
            /\ cc_result' = IF WouldCreateCycle(adj, a, b) THEN "True" ELSE "False"
    /\ UNCHANGED <<dependencies, lo_pc, lo_todo, lo_stack, visited, temp_visited, result>>
    /\ UNCHANGED <<dcvars, docvars, treevars, buildvars, sidevars>>

SpecCycleCheck == CcInit /\ [][CycleCheckCall]_vars

(***************************************************************************)
(* Rebuilder._distribute_components                                        *)
(***************************************************************************)
\* The bucket of a function whose lower-cased name is w.
BucketOfLower(w) ==
    IF w = Str.main THEN "main"
    ELSE IF StartsWith(w, Str.run_) THEN "runner"
    ELSE IF StartsWith(w, Str.cleanup_) THEN "cleanup"
    ELSE "utils"

\* The bucket of a function: the tests read the lower-cased name.
Bucket(f) == BucketOfLower(LowerStr(f))

\* The functions of one bucket, in source order.
BucketFunctions(st, bucket) ==
    LET InBucket(f) == Bucket(f.name) = bucket
    IN  SelectSeq(st.functions, InBucket)

\* The last element of a list, as a list.
LastOf(s) == IF s = <<>> THEN <<>> ELSE <<s[Len(s)]>>

\* main_function: every function whose lower-cased name is main is assigned
\* to the same variable, so the last one stays.
MainFunction(st) == LastOf(BucketFunctions(st, "main"))

\* The functions written to the file of a bucket.
WrittenFunctions(st, bucket) ==
    IF bucket = "main" THEN MainFunction(st) ELSE BucketFunctions(st, bucket)

BucketStem(bucket) ==
    CASE bucket = "main" -> Str.main
      [] bucket = "runner" -> Str.runner_functions
      [] bucket = "cleanup" -> Str.cleanup
      [] bucket = "utils" -> Str.utils

BucketPath(bucket) == Path(Str.utils, BucketStem(bucket))

CodesOf(entries) == [k \in 1..Len(entries) |-> entries[k].code]

\* _create_module_file(category, name, code, replace_imports=False): the
\* header and the code of the class.
ClassFile(cls) == Content("class", <<cls.code>>, {StarImport})

\* The component name the first pass hands to _replace_internal_imports:
\* 'main' in _generate_main_code, the name of the function in
\* _generate_runner_functions_code and _generate_cleanup_code.
FirstPassComponent(bucket, func) == IF bucket = "main" THEN Str.main ELSE func.name

\* _generate_main_code, _generate_runner_functions_code and
\* _generate_cleanup_code: the header, then the code of every function after
\* _replace_internal_imports.
FirstPassFile(bucket, funcs, st, g) ==
    [Content(bucket, CodesOf(funcs), {StarImport}) EXCEPT
        !.imports = @ \cup UNION {
            UNION {ReplaceSourceImport(st, g, Str.utils,
                        FirstPassComponent(bucket, funcs[k]), x) :
                   x \in Range(funcs[k].code.srcimp)} :
            k \in 1..Len(funcs)},
        !.units = [k \in 1..Len(funcs) |-> [funcs[k].code EXCEPT !.srcimp = <<>>]]]

\* _generate_utils_code(functions, replace_imports=False)
UtilsFile(funcs) == Content("utils", CodesOf(funcs), {StarImport})

\* The file of a bucket.
BucketFile(bucket, funcs, st, g) ==
    IF bucket = "utils" THEN UtilsFile(funcs) ELSE FirstPassFile(bucket, funcs, st, g)

\* The files of the tree are a function from paths to texts.
Put(fs, p, c) == [q \in DOMAIN fs \cup {p} |-> IF q = p THEN c ELSE fs[q]]

Buckets == {"main", "runner", "cleanup", "utils"}

\* The files written before imports.py: one per class, then main.py,
\* runner_functions.py, cleanup.py and utils.py for the buckets that have a
\* function.
UnitFiles(st, g) ==
    [p \in {ModuleMapping(st)[k].path : k \in 1..Len(st.classes)}
           \cup {BucketPath(b) : b \in {x \in Buckets : WrittenFunctions(st, x) # <<>>}} |->
        IF \E b \in Buckets : p = BucketPath(b) /\ WrittenFunctions(st, b) # <<>>
        THEN LET b == CHOOSE x \in Buckets : p = BucketPath(x)
             IN  BucketFile(b, WrittenFunctions(st, b), st, g)
        ELSE ClassFile(EntryOf(st.classes, p[2]))]

\* Does a constant create an instance of a class ("<Class>()" in its code)?
IsClassInstance(st, const) == const.code.uses \cap Names(st.classes) # {}

\* global_init: the constants that create an instance of a class.
GlobalInit(st) ==
    LET Deferred(const) == IsClassInstance(st, const)
    IN  SelectSeq(st.constants, Deferred)

SimpleConstants(st) ==
    LET Simple(const) == ~IsClassInstance(st, const)
    IN  SelectSeq(st.constants, Simple)

\* _generate_imports_code reads future_imports, import_statements and
\* from_imports, which are bound only inside "if imports:"; with an empty
\* list of imports the read raises UnboundLocalError.
GenerateImportsRaises(st) == st.imports = <<>>

\* _generate_imports_code: the imports of modules other than the document,
\* the simple constants, and "<name> = None" for every deferred constant.
ImportsFile(st) ==
    [Content("prelude", CodesOf(SimpleConstants(st)),
             {Import(<<>>, st.imports[k].module, st.imports[k].name, FALSE) :
                k \in {j \in 1..Len(st.imports) :
                        st.imports[j].module # SourceModule}})
     EXCEPT !.deferred = Names(GlobalInit(st))]

\* The classes the deferred constants call.
NeededClasses(st, inits) ==
    UNION {inits[k].code.uses \cap Names(st.classes) : k \in 1..Len(inits)}

\* _generate_global_init_code: the classes the deferred constants call are
\* imported, then the original assignments follow.
InitFile(st) ==
    Content("init", CodesOf(GlobalInit(st)),
            {StarImport}
            \cup {Import(determine_category(x), x, x, FALSE) :
                    x \in NeededClasses(st, GlobalInit(st))})

(***************************************************************************)
(* Rebuilder._replace_imports_in_all_modules                               *)
(***************************************************************************)
\* The categories whose class files lose every import of
\* utils.runner_functions.
RunnerFreeCategories ==
    {Str.core, Str.handlers, Str.managers, Str.analyzers, Str.gui, Str.loggers}

\* utils/utils.py loses every top-level line "from a.b import X" with X a
\* class of module_mapping.
FilterClassImports(c, st) ==
    [c EXCEPT !.imports =
        {i \in @ : ~(~i.nested /\ i.module[1] # <<>> /\ i.name \in Names(st.classes))}]

\* The component name a file is processed under.
ComponentOf(kind, p) ==
    CASE kind = "class" -> p[2]
      [] kind = "utils" -> Str.utils
      [] kind = "main" -> Str.main
      [] kind = "runner" -> Str.runner_functions
      [] kind = "cleanup" -> Str.cleanup

\* What is handed to _replace_internal_imports: of utils/main.py only the
\* text after "from imports import *".
BeforeReplace(c) ==
    IF c.kind = "main" THEN [c EXCEPT !.imports = @ \ {StarImport}] ELSE c

\* Between _replace_internal_imports and _add_missing_imports: a class file
\* passes _remove_circular_function_imports, utils/utils.py loses its direct
\* imports of classes.
BetweenPasses(a, st, g, component_name) ==
    CASE a.kind = "class" -> remove_circular_function_imports(a, st, g, component_name)
      [] a.kind = "utils" -> FilterClassImports(a, st)
      [] OTHER -> a

\* After _add_missing_imports.  A class file whose text became None is left
\* as it was written: _replace_config_imports raises on None and the
\* handler of the exception skips the file.
AfterPasses(c, d, st, category) ==
    CASE c.kind = "class" ->
            IF IsNone(d) THEN c
            ELSE IF category \in RunnerFreeCategories
            THEN [d EXCEPT
                    !.imports = {i \in @ : i.module # Path(Str.utils, Str.runner_functions)},
                    !.commented = {i \in @ : i.module # Path(Str.utils, Str.runner_functions)}]
            ELSE d
      [] c.kind = "utils" -> FilterClassImports(d, st)
      [] c.kind = "main" -> [d EXCEPT !.imports = @ \cup {StarImport}]
      [] OTHER -> d

\* The passes over one file for its component name.
ProcessAs(c, st, g, category, component_name) ==
    AfterPasses(c,
        add_missing_imports(
            BetweenPasses(
                replace_internal_imports(BeforeReplace(c), st, g, category, component_name),
                st, g, component_name),
            st, g, category, component_name),
        st, category)

ProcessFile(c, st, g, p) == ProcessAs(c, st, g, p[1], ComponentOf(c.kind, p))

\* _replace_imports_in_all_modules: the class files, utils.py, main.py,
\* runner_functions.py and cleanup.py; no pass reads another file.
replace_imports_in_all_modules(fs, st, g) ==
    [p \in DOMAIN fs |->
        IF fs[p].kind \in {"class", "utils", "main", "runner", "cleanup"}
        THEN ProcessFile(fs[p], st, g, p)
        ELSE fs[p]]

\* Does _distribute_components raise?  The prelude is generated when the
\* document has an import or a constant.
DistributeRaises(st) ==
    (st.imports # <<>> \/ st.constants # <<>>) /\ GenerateImportsRaises(st)

\* The files of the first pass with imports.py and init.py.
WithPrelude(units, st) ==
    [p \in DOMAIN units
           \cup (IF st.imports # <<>> \/ st.constants # <<>>
                 THEN {Path(<<>>, Str.imports)} ELSE {})
           \cup (IF GlobalInit(st) # <<>> THEN {Path(<<>>, Str.init)} ELSE {}) |->
        IF p = Path(<<>>, Str.imports) THEN ImportsFile(st)
        ELSE IF p = Path(<<>>, Str.init) THEN InitFile(st)
        ELSE units[p]]

\* The files _distribute_components leaves behind.  When the prelude cannot
\* be generated the unit files stay as the first pass wrote them.
distribute_components(st, g) ==
    IF DistributeRaises(st) THEN UnitFiles(st, g)
    ELSE replace_imports_in_all_modules(WithPrelude(UnitFiles(st, g), st), st, g)

(***************************************************************************)
(* Rebuilder: directories, __init__.py, metadata, launcher                 *)
(***************************************************************************)
MetadataDir == <<".", "m", "e", "t", "a", "d", "a", "t", "a">>

\* _create_structure: the destination, the metadata directory and one
\* directory per category of the project.
create_structure(st) == {<<>>, MetadataDir} \cup get_project_categories(st)

\* _generate_init_files: an __init__.py in every category directory that
\* holds a module, and the one of the destination.  No later step reads
\* them, so their text is left empty.
generate_init_files(fs, st) ==
    [p \in DOMAIN fs
           \cup {Path(cat, Str.dunder_init) :
                    cat \in {<<>>} \cup {x \in get_project_categories(st) :
                                            \E q \in DOMAIN fs : q[1] = x}} |->
        IF p[2] = Str.dunder_init THEN Content("pkginit", <<>>, {}) ELSE fs[p]]

\* _save_metadata: metadata.json records module_mapping.
save_metadata(st) == [present |-> TRUE, module_mapping |-> ModuleMapping(st)]

\* _generate_launcher_file: the import lines of the file in their order:
\* sys and os, the prelude, every class in class_order, init.py when
\* global_init holds something, and main from utils.main.  The template
\* writes the line of the prelude and the line of utils.main indented.
LauncherLines(st) ==
    <<Import(<<>>, <<"s", "y", "s">>, <<>>, FALSE),
      Import(<<>>, <<"o", "s">>, <<>>, FALSE),
      Import(<<>>, Str.imports, Str.star, TRUE)>>
    \o [k \in 1..Len(st.classes) |->
            Import(ModuleMapping(st)[k].path[1], ModuleMapping(st)[k].name,
                   ModuleMapping(st)[k].name, FALSE)]
    \o (IF GlobalInit(st) # <<>> THEN <<Import(<<>>, Str.init, Str.star, FALSE)>> ELSE <<>>)
    \o <<Import(Str.utils, Str.main, Str.main, TRUE)>>

\* The file named after the document, written into the modules directory.
LauncherFile(st) ==
    [lines |-> LauncherLines(st)]
        @@ Content("launcher", <<>>, Range(LauncherLines(st)))

\* python <launcher>: the statements of the launcher stand at the top level
\* of the file, where an indented line is an IndentationError and nothing
\* of the file runs; otherwise the files of the tree are loaded in the order
\* of the lines.
LauncherLoads(lines) ==
    IF \E k \in 1..Len(lines) : lines[k].nested THEN <<>>
    ELSE LET tree == SelectSeq(lines, LAMBDA l : l.name # <<>>)
         IN  [k \in 1..Len(tree) |-> tree[k].module]

(***************************************************************************)
(* Builder                                                                 *)
(***************************************************************************)
\* The relative path of a file as os.walk and os.path.relpath give it.
PathSpelling(p) ==
    IF p[1] = <<>> THEN p[2] \o Str.py ELSE p[1] \o Str.slash \o p[2] \o Str.py

\* sorted(): the paths of a set in ascending order of their spelling.
RECURSIVE SortedPaths(_)
SortedPaths(S) ==
    IF S = {} THEN <<>>
    ELSE LET least == CHOOSE x \in S :
                        \A y \in S \ {x} : StrLess(PathSpelling(x), PathSpelling(y))
         IN  <<least>> \o SortedPaths(S \ {least})

\* all_modules: every .py file below the modules directory except the
\* __init__.py files; the metadata directory is skipped.
all_modules(fs) == {p \in DOMAIN fs : p[2] # Str.dunder_init}

priority_files == <<Path(<<>>, Str.config), Path(<<>>, Str.imports)>>

category_order ==
    <<Str.core, Str.handlers, Str.managers, Str.gui, Str.utils, Str.models, Str.analyzers, Str.logging>>

\* The modules of the categories of category_order, each category sorted.
GroupedModules(other) ==
    Flatten([k \in 1..Len(category_order) |->
                SortedPaths({q \in other : q[1] = category_order[k]})])

\* The automatic order of the modules found: config.py and imports.py, then
\* the modules of each category of category_order, sorted, then the
\* remaining ones, sorted.
OrderOf(modules, other, grouped) ==
    LET Found(q) == q \in modules
    IN  SelectSeq(priority_files, Found) \o grouped
        \o SortedPaths(other \ Range(grouped))

DefaultOrderOf(modules, other) == OrderOf(modules, other, GroupedModules(other))

DefaultOrder(fs) ==
    DefaultOrderOf(all_modules(fs), all_modules(fs) \ Range(priority_files))

\* _determine_load_order: with metadata that has a module_mapping the
\* modules found are sorted by path; otherwise the automatic order.
determine_load_order(fs, md) ==
    IF md.present THEN SortedPaths(all_modules(fs)) ELSE DefaultOrder(fs)

\* _extract_imports_and_code: every line that starts with "import " or
\* "from " after stripping moves to the imports, nested ones included.
extract_imports(c) == {Line(i) : i \in c.imports}

extract_code(c) == [c EXCEPT !.imports = {}]

\* _collect_code_parts and _combine_code: the imports of all modules once,
\* then one section per module in modules_order.  Every generated file has
\* a docstring, so no section is left out as empty.
combine_code(fs, order) ==
    [written |-> TRUE,
     imports |-> UNION {extract_imports(fs[order[k]]) : k \in 1..Len(order)},
     sections |-> [k \in 1..Len(order) |->
                    [path |-> order[k], code |-> extract_code(fs[order[k]])]]]

(***************************************************************************)
(* Builder._apply_config and the configuration of a build                  *)
(***************************************************************************)
\* The longest text of the cleanup.
MaxLines == 4

\* The lines of a text: empty, blanks only, code, code with a trailing blank.
Lines == {"", " ", "x", "x "}

Texts == UNION {[1..n -> Lines] : n \in 0..MaxLines}

\* not line.strip()
IsBlank(line) == line \in {"", " "}

\* line.rstrip()
RStrip(line) == IF line = " " THEN "" ELSE IF line = "x " THEN "x" ELSE line

\* The body of the loop with the test of the count turned around: the blank
\* lines beyond the maximum are the ones kept.
CollapseLine_KeepsExcess(line, empty_count, max_empty) ==
    IF IsBlank(line)
    THEN [keep |-> empty_count + 1 > max_empty, count |-> empty_count + 1]
    ELSE [keep |-> TRUE, count |-> 0]

\* The body of the loop of _apply_config on one line: is the line appended
\* to cleaned_lines, and empty_count after it.
CollapseLine(line, empty_count, max_empty) ==
    IF IsBlank(line)
    THEN [keep |-> empty_count + 1 <= max_empty, count |-> empty_count + 1]
    ELSE [keep |-> TRUE, count |-> 0]

\* cleaned_lines after the loop from line i on.
RECURSIVE Collapse(_, _, _, _)
Collapse(lines, i, empty_count, max_empty) ==
    IF i > Len(lines) THEN <<>>
    ELSE LET step == CollapseLine(lines[i], empty_count, max_empty)
         IN  (IF step.keep THEN <<lines[i]>> ELSE <<>>)
             \o Collapse(lines, i + 1, step.count, max_empty)

\* _apply_config: the text is split at the line ends and joined again.
apply_config(lines, cleanup) ==
    LET collapsed == IF cleanup.remove_empty_lines
                     THEN Collapse(lines, 1, 0, cleanup.max_empty_lines)
                     ELSE lines
    IN  IF cleanup.remove_trailing_whitespace
        THEN [k \in 1..Len(collapsed) |-> RStrip(collapsed[k])]
        ELSE collapsed

\* The cleanup settings a caller can hand to build().
CleanupConfigs ==
    [remove_empty_lines : BOOLEAN, max_empty_lines : 0..2,
     remove_trailing_whitespace : BOOLEAN]

CleanupInit ==
    /\ LoOff
    /\ doc = "none"
    /\ pc = "builder"
    /\ structure = NoStructure
    /\ TreeInit
    /\ metadata = NoMetadata
    /\ modules_order = <<>>
    /\ output = NoOutput
    /\ build_result = "none"
    /\ BUILD_CONFIG = DefaultBuildConfig
    /\ cl_pc = "idle"
    /\ cl_code \in Texts
    /\ cl_config = DefaultBuildConfig
    /\ cl_default = "none"
    /\ cl_once = <<>>
    /\ cl_twice = <<>>
    /\ SplitOff
    /\ LoadOff
    /\ InitCodeOff
    /\ PassOff

\* build.py main(): config = BUILD_CONFIG.copy() copies the outer dict only,
\* so config['cleanup'] is the dict of BUILD_CONFIG, and --cleanup writes
\* into it; then build(config).
MainBuild ==
    /\ cl_pc # "off"
    /\ \E cleanup \in BOOLEAN :
        BUILD_CONFIG' = IF cleanup THEN [BUILD_CONFIG EXCEPT !.remove_empty_lines = TRUE]
                        ELSE BUILD_CONFIG
    /\ cl_config' = BUILD_CONFIG'
    /\ cl_default' = "no"
    /\ cl_once' = apply_config(cl_code, cl_config')
    /\ cl_pc' = "once"
    /\ UNCHANGED <<cl_code, cl_twice>>

\* build(config=None): config = BUILD_CONFIG
BuildDefault ==
    /\ cl_pc # "off"
    /\ cl_config' = BUILD_CONFIG
    /\ cl_default' = "yes"
    /\ cl_once' = apply_config(cl_code, cl_config')
    /\ cl_pc' = "once"
    /\ UNCHANGED <<BUILD_CONFIG, cl_code, cl_twice>>

\* build(config) with a dict of the caller.
BuildWithConfig ==
    /\ cl_pc # "off"
    /\ cl_config' \in CleanupConfigs
    /\ cl_default' = "no"
    /\ cl_once' = apply_config(cl_code, cl_config')
    /\ cl_pc' = "once"
    /\ UNCHANGED <<BUILD_CONFIG, cl_code, cl_twice>>

\* _apply_config on its own result, with the same settings.
ApplyConfigAgain ==
    /\ cl_pc = "once"
    /\ cl_twice' = apply_config(cl_once, cl_config)
    /\ cl_pc' = "twice"
    /\ UNCHANGED <<BUILD_CONFIG, cl_code, cl_config, cl_default, cl_once>>

CleanupStep == MainBuild \/ BuildDefault \/ BuildWithConfig \/ ApplyConfigAgain

CleanupNext ==
    /\ CleanupStep
    /\ UNCHANGED <<lovars, docvars, treevars, metadata, modules_order, output, build_result, sidevars>>

SpecCleanup == CleanupInit /\ [][CleanupNext]_vars

(***************************************************************************)
(* Rebuilder._generate_imports_code: simple constants and global_init      *)
(***************************************************************************)
\* The largest number of top-level bindings of the split.
MaxConstants == 2

\* A literal as right-hand side.
Literal == [kind |-> "literal", callee |-> <<>>, args |-> <<>>]

\* A call callee(args) as right-hand side or as argument.
Call(callee, args) == [kind |-> "call", callee |-> callee, args |-> args]

\* The names called: two classes of the documents and a function.
Callees == {Spelling("Alpha"), Spelling("Base"), Spelling("helper")}

\* The arguments of a call: none, a literal, an instance of Alpha.
ArgLists == {<<>>, <<Literal>>, <<Call(Spelling("Alpha"), <<>>)>>}

RightHandSides == {Literal} \cup {Call(c, a) : c \in Callees, a \in ArgLists}

\* The text of an argument.
ArgText(e) ==
    IF e.kind = "literal" THEN <<"1">> ELSE e.callee \o <<"(", ")">>

\* The text of a right-hand side.
RhsText(e) ==
    IF e.kind = "literal" THEN <<"1">>
    ELSE e.callee \o <<"(">>
         \o (IF e.args = <<>> THEN <<>> ELSE ArgText(e.args[1]))
         \o <<")">>

\* const['code']: the line of the binding.
ConstCode(const) == const.name \o <<" ", "=", " ">> \o RhsText(const.rhs)

\* is_class_instance: f"{class_name}()" in const_code for some class.
is_class_instance(names, const) ==
    \E class_name \in names : Contains(ConstCode(const), class_name \o <<"(", ")">>)

SplitInit ==
    /\ LoOff
    /\ doc = "none"
    /\ pc = "split"
    /\ structure = NoStructure
    /\ TreeInit
    /\ metadata = NoMetadata
    /\ modules_order = <<>>
    /\ output = NoOutput
    /\ build_result = "none"
    /\ CleanupOff
    /\ LoadOff
    /\ InitCodeOff
    /\ PassOff
    /\ split_pc = "idle"
    /\ class_names \in SUBSET {Spelling("Alpha"), Spelling("Base")}
    /\ constants \in UNION {[1..n -> [name : {<<"v">>}, rhs : RightHandSides]] :
                               n \in 0..MaxConstants}
    /\ simple_constants = <<>>
    /\ global_init = <<>>

\* The loop over the constants: a constant goes to global_init when it
\* creates an instance of a class, to simple_constants otherwise (the code
\* of an assignment always holds "=").
SplitConstants ==
    /\ split_pc = "idle"
    /\ LET Deferred(const) == is_class_instance(class_names, const)
           Simple(const) == ~is_class_instance(class_names, const)
       IN  /\ global_init' = SelectSeq(constants, Deferred)
           /\ simple_constants' = SelectSeq(constants, Simple)
    /\ split_pc' = "done"
    /\ UNCHANGED <<class_names, constants>>

SplitNext ==
    SplitConstants /\ UNCHANGED <<lovars, docvars, treevars, buildvars, loadvars, initvars, passvars>>

SpecSplit == SplitInit /\ [][SplitNext]_vars

(***************************************************************************)
(* Spec: Rebuilder.rebuild on a document, then Builder.build on the tree   *)
(***************************************************************************)
\* The statements of the documents handed to rebuild: they vary the units,
\* their references to each other and the letter case of function names.
\* No name is part of another name or of the text of a header, a call has
\* no argument, no unit is decorated and none reads a module of the
\* standard library.
RebuildStmts ==
    {NoBody("import", "os"), NoBody("assign", "VERSION"),
     Stmt("assign", Spelling("VERSION"), 0, <<>>, {Spelling("Alpha")}, {}, <<>>),
     NoBody("class", "Base"),
     Stmt("class", Spelling("Base"), 0, <<>>, {Spelling("Alpha")}, {}, <<>>),
     NoBody("class", "Alpha"),
     Stmt("class", Spelling("Alpha"), 0, Spelling("Base"), {}, {}, <<>>),
     Stmt("class", Spelling("Alpha"), 0, <<>>, {Spelling("Base")}, {}, <<>>),
     Stmt("class", Spelling("Alpha"), 0, <<>>, {Spelling("helper")}, {}, <<>>),
     NoBody("def", "helper"),
     Stmt("def", Spelling("helper"), 0, <<>>, {Spelling("Alpha")}, {}, <<>>),
     NoBody("def", "main"), NoBody("def", "Main"),
     Stmt("def", Spelling("other"), 0, <<>>, {Spelling("helper")}, {},
          <<Spelling("helper")>>),
     NoBody("def", "run_job"), NoBody("def", "cleanup_job")}

Init ==
    /\ LoOff
    /\ doc \in Docs(RebuildStmts)
    /\ pc = "parse"
    /\ structure = NoStructure
    /\ TreeInit
    /\ BuilderInit

\* RebuildParse without the test of the result of parser.parse().
RebuildParse_IgnoresParseFailure ==
    /\ pc = "parse"
    /\ structure' = get_structure(IF doc.parseable THEN doc.stmts ELSE <<>>)
    /\ dependencies' = resolve(structure')
    /\ pc' = "create_structure"
    /\ UNCHANGED <<doc, dirs, files, metadata_file, rebuild_result, buildvars, sidevars>>
    /\ UNCHANGED <<lo_pc, lo_todo, lo_stack, visited, temp_visited, result, dcvars, ccvars>>

\* rebuild, step 1: parse the document; on failure return False at once.
\* Otherwise take the structure and resolve the dependencies.
RebuildParse ==
    /\ pc = "parse"
    /\ IF doc.parseable
       THEN /\ structure' = get_structure(doc.stmts)
            /\ dependencies' = resolve(structure')
            /\ pc' = "create_structure"
            /\ UNCHANGED rebuild_result
       ELSE /\ rebuild_result' = "False"
            /\ pc' = "rebuilt"
            /\ UNCHANGED <<structure, dependencies>>
    /\ UNCHANGED <<doc, dirs, files, metadata_file, buildvars, sidevars>>
    /\ UNCHANGED <<lo_pc, lo_todo, lo_stack, visited, temp_visited, result, dcvars, ccvars>>

\* rebuild, step 2: _create_structure
RebuildCreateStructure ==
    /\ pc = "create_structure"
    /\ dirs' = create_structure(structure)
    /\ pc' = "distribute"
    /\ UNCHANGED <<lovars, doc, structure, files, metadata_file, rebuild_result, buildvars, sidevars>>

\* rebuild, step 3: _distribute_components; an exception inside it is
\* caught, it returns False and so does rebuild.
RebuildDistribute ==
    /\ pc = "distribute"
    /\ files' = distribute_components(structure, dependencies)
    /\ IF DistributeRaises(structure)
       THEN rebuild_result' = "False" /\ pc' = "rebuilt"
       ELSE pc' = "init_files" /\ UNCHANGED rebuild_result
    /\ UNCHANGED <<lovars, doc, structure, dirs, metadata_file, buildvars, sidevars>>

\* rebuild, step 4: _generate_init_files
RebuildInitFiles ==
    /\ pc = "init_files"
    /\ files' = generate_init_files(files, structure)
    /\ pc' = "save_metadata"
    /\ UNCHANGED <<lovars, doc, structure, dirs, metadata_file, rebuild_result, buildvars, sidevars>>

\* rebuild, step 5: _save_metadata (config_created is never set, so the
\* config step that follows it does nothing).
RebuildSaveMetadata ==
    /\ pc = "save_metadata"
    /\ metadata_file' = save_metadata(structure)
    /\ pc' = "launcher"
    /\ UNCHANGED <<lovars, doc, structure, dirs, files, rebuild_result, buildvars, sidevars>>

\* rebuild, step 6: _generate_launcher_file, then return True.
RebuildLauncher ==
    /\ pc = "launcher"
    /\ files' = Put(files, Path(<<>>, SourceModule), LauncherFile(structure))
    /\ rebuild_result' = "True"
    /\ pc' = "rebuilt"
    /\ UNCHANGED <<lovars, doc, structure, dirs, metadata_file, buildvars, sidevars>>

\* The caller removes the metadata file between rebuild and build.
RemoveMetadata ==
    /\ pc = "rebuilt"
    /\ metadata_file.present
    /\ metadata_file' = NoMetadata
    /\ UNCHANGED <<lovars, docvars, dirs, files, rebuild_result, buildvars, sidevars>>

\* build, step 1: _load_metadata
BuildLoadMetadata ==
    /\ pc = "rebuilt"
    /\ metadata' = metadata_file
    /\ pc' = "load_order"
    /\ UNCHANGED <<lovars, doc, structure, treevars, modules_order, output, build_result, cfgvars, sidevars>>

\* build, step 2: _determine_load_order
BuildDetermineLoadOrder ==
    /\ pc = "load_order"
    /\ modules_order' = determine_load_order(files, metadata)
    /\ pc' = "combine"
    /\ UNCHANGED <<lovars, doc, structure, treevars, metadata, output, build_result, cfgvars, sidevars>>

\* build, steps 3 to 6: _collect_code_parts, _combine_code, _apply_config
\* and _save_output, then return True.
BuildCombineAndSave ==
    /\ pc = "combine"
    /\ output' = combine_code(files, modules_order)
    /\ build_result' = "True"
    /\ pc' = "built"
    /\ UNCHANGED <<lovars, doc, structure, treevars, metadata, modules_order, cfgvars, sidevars>>

Next ==
    \/ RebuildParse
    \/ RebuildCreateStructure
    \/ RebuildDistribute
    \/ RebuildInitFiles
    \/ RebuildSaveMetadata
    \/ RebuildLauncher
    \/ RemoveMetadata
    \/ BuildLoadMetadata
    \/ BuildDetermineLoadOrder
    \/ BuildCombineAndSave

Spec == Init /\ [][Next]_vars

(***************************************************************************)
(* SpecSelfReference: rebuild and build on documents whose classes mention *)
(* their own name                                                          *)
(***************************************************************************)
\* A class whose methods call the class itself, beside the plain units.
SelfStmts ==
    {NoBody("import", "os"), NoBody("assign", "VERSION"),
     NoBody("class", "Base"),
     Stmt("class", Spelling("Base"), 0, <<>>, {Spelling("Base")}, {}, <<>>),
     NoBody("class", "Alpha"),
     Stmt("class", Spelling("Alpha"), 0, <<>>, {Spelling("Alpha")}, {}, <<>>),
     Stmt("class", Spelling("Alpha"), 0, Spelling("Base"), {Spelling("Alpha")}, {}, <<>>),
     NoBody("def", "helper"), NoBody("def", "main")}

SelfInit ==
    /\ LoOff
    /\ doc \in Docs(SelfStmts)
    /\ pc = "parse"
    /\ structure = NoStructure
    /\ TreeInit
    /\ BuilderInit

SpecSelfReference == SelfInit /\ [][Next]_vars


\* The statements of the documents whose units call functions of every
\* bucket: a class and a function of utils.py that call a function named
\* with a capital letter, a runner, a cleanup function or a helper.
FunctionStmts ==
    {NoBody("import", "os"),
     NoBody("def", "Main"), NoBody("def", "Run_job"), NoBody("def", "run_job"),
     NoBody("def", "cleanup_job"), NoBody("def", "helper")}
    \cup {Stmt(kind, Spelling(unit), 0, <<>>, {Spelling(f)}, {}, <<>>) :
            kind \in {"class"}, unit \in {"Alpha"},
            f \in {"Main", "Run_job", "run_job", "cleanup_job", "helper"}}
    \cup {Stmt("def", Spelling("other"), 0, <<>>, {Spelling(f)}, {}, <<>>) :
            f \in {"Main", "Run_job", "run_job", "cleanup_job", "helper"}}

FunctionInit ==
    /\ LoOff
    /\ doc \in Docs(FunctionStmts)
    /\ pc = "parse"
    /\ structure = NoStructure
    /\ TreeInit
    /\ BuilderInit

SpecFunctionImports == FunctionInit /\ [][Next]_vars
(***************************************************************************)
(* Properties of rebuild followed by build                                 *)
(***************************************************************************)
\* rebuild returned True and build has not started.
Decomposed == pc = "rebuilt" /\ rebuild_result = "True"

\* The text of a generated file defines the name n at its top level.
DefinedIn(c, n) == \E k \in 1..Len(c.units) : c.units[k].name = n

\* The text of the built file holds the name n: in an import line, in the
\* "# <path>" line of a section or in the code of a section.
OutputHolds(out, n) ==
    \/ \E i \in out.imports : InLine(i, n)
    \/ \E k \in 1..Len(out.sections) :
        \/ Contains(PathSpelling(out.sections[k].path), n)
        \/ InContent(out.sections[k].code, n)
        \/ \E x \in out.sections[k].code.deferred : Contains(x, n)

\* The file a class or a function is written to.
FileOf(st, n) ==
    IF n \in Names(st.classes) THEN Path(determine_category(n), n)
    ELSE BucketPath(Bucket(n))

\* a and b reference each other, directly or through other components.
MutualReference(g, a, b) ==
    a # b /\ b \in Reach(g, {a}) /\ a \in Reach(g, {b})

\* The text has a top-level line "from <p> import <n>".
DirectImport(c, p, n) ==
    \E i \in c.imports : ~i.nested /\ i.module = p /\ i.name = n

\* The paths metadata.json records, in the order it records them.
RecordedPaths(md) == [k \in 1..Len(md.module_mapping) |-> md.module_mapping[k].path]

\* The paths of an order that belong to the set S, in that order.
Restrict(order, S) ==
    LET Member(p) == p \in S
    IN  SelectSeq(order, Member)

\* The sections of the built file that define the class n.
SectionsOfClass(out, n) ==
    {k \in 1..Len(out.sections) :
        out.sections[k].code.kind = "class" /\ DefinedIn(out.sections[k].code, n)}

\* C1: for every parseable document, rebuild followed by build, with the
\* metadata file present or removed, ends with both calls returning True and
\* a built file that holds the name of every class, function and constant of
\* the document.
C1_RoundTripKeepsNames ==
    (pc = "built" /\ doc.parseable) =>
        /\ rebuild_result = "True"
        /\ build_result = "True"
        /\ \A n \in all_component_names(structure) : OutputHolds(output, n)

\* C2: after rebuild, when a class and another class or function reference
\* each other (directly or transitively), neither of their files has a
\* direct import of the other.
C2_NoDirectImportInCycle ==
    Decomposed =>
        \A a \in Names(structure.classes) :
            \A b \in Names(structure.classes) \cup Names(structure.functions) :
                MutualReference(dependencies, a, b) =>
                    /\ ~DirectImport(files[FileOf(structure, a)], FileOf(structure, b), b)
                    /\ ~DirectImport(files[FileOf(structure, b)], FileOf(structure, a), a)

\* C3: after rebuild, every class, function and constant name of the
\* document is defined in exactly one generated file.
C3_EveryNameInOneFile ==
    Decomposed =>
        \A n \in all_component_names(structure) :
            Cardinality({p \in DOMAIN files : DefinedIn(files[p], n)}) = 1

\* C5: after rebuild, no class file and no function file has an import
\* statement whose module is the file itself.
C5_NoSelfImport ==
    Decomposed =>
        \A p \in DOMAIN files :
            files[p].kind \in {"class", "utils", "main", "runner", "cleanup"} =>
                \A i \in files[p].imports : i.module # p

\* C6: when the document cannot be parsed, rebuild returns False and has
\* created no directory, no file and no metadata.
C6_ParseFailureWritesNothing ==
    (~doc.parseable /\ rebuild_result # "none") =>
        /\ rebuild_result = "False"
        /\ dirs = {}
        /\ files = NoFiles
        /\ ~metadata_file.present

C6_Witness ==
    /\ ~doc.parseable
    /\ doc.stmts # <<>>
    /\ pc = "rebuilt"
    /\ rebuild_result = "False"

\* C7: for every parseable document with at least one top-level constant,
\* rebuild returns True and imports.py holds every constant, whether or not
\* the document has an import.
C7_PreludeHoldsConstants ==
    (pc = "rebuilt" /\ doc.parseable /\ structure.constants # <<>>) =>
        /\ rebuild_result = "True"
        /\ Path(<<>>, Str.imports) \in DOMAIN files
        /\ \A n \in Names(structure.constants) :
            \/ DefinedIn(files[Path(<<>>, Str.imports)], n)
            \/ n \in files[Path(<<>>, Str.imports)].deferred

\* C8: build uses the order recorded in the metadata whenever metadata is
\* present and records files that are found, and the default order when
\* there is no metadata.
C8_RecordedOrderIsUsed ==
    pc \in {"combine", "built"} =>
        /\ (/\ metadata.present
            /\ metadata.module_mapping # <<>>
            /\ Range(RecordedPaths(metadata)) \subseteq all_modules(files))
           => Restrict(modules_order, Range(RecordedPaths(metadata)))
                = RecordedPaths(metadata)
        /\ ~metadata.present => modules_order = DefaultOrder(files)

\* C9: in the built file every class whose base class is defined in
\* another section comes after the section of its base class, with or
\* without metadata.
C9_BaseBeforeDerived ==
    pc = "built" =>
        \A k \in 1..Len(output.sections) :
            \A j \in 1..Len(output.sections[k].code.units) :
                LET unit == output.sections[k].code.units[j]
                IN  (output.sections[k].code.kind = "class" /\ unit.base # <<>>) =>
                        \A b \in SectionsOfClass(output, unit.base) : b < k

(***************************************************************************)
(* The split program under the Python interpreter                          *)
(*                                                                         *)
(* The entry point Rebuilder._generate_launcher_file wrote is run in the   *)
(* modules directory, as a file or statement by statement.  A namespace    *)
(* maps the names of the top-level bindings of the document to "value"     *)
(* (a simple constant), "None" (the placeholder of the prelude) or         *)
(* "instance" (the object the original assignment creates).                *)
(***************************************************************************)
\* The largest number of top-level statements of a document that is loaded.
MaxLoadStmts == 4

\* The statements of the documents that are split and loaded: a binding
\* that creates an instance of a class, and units that read it.
LoadStmts ==
    {NoBody("import", "os"), NoBody("class", "Alpha"), NoBody("class", "Base"),
     Stmt("class", Spelling("Base"), 0, <<>>, {Spelling("VERSION")}, {}, <<>>),
     NoBody("assign", "VERSION"),
     Stmt("assign", Spelling("VERSION"), 0, <<>>, {Spelling("Alpha")}, {}, <<>>),
     NoBody("def", "main"),
     Stmt("def", Spelling("main"), 0, <<>>, {Spelling("VERSION")}, {}, <<>>)}

\* The tree a successful rebuild leaves behind: _distribute_components,
\* _generate_init_files, _generate_launcher_file.
RebuiltFiles(st, g) ==
    Put(generate_init_files(distribute_components(st, g), st),
        Path(<<>>, SourceModule), LauncherFile(st))

\* The parseable documents on which rebuild returns True.
LoadDocs ==
    {d \in {[parseable |-> TRUE, stmts |-> ss] :
                ss \in {t \in UNION {[1..n -> LoadStmts] : n \in 1..MaxLoadStmts} :
                            DistinctNames(t)}} :
        ~DistributeRaises(get_structure(d.stmts))}

LoadInit ==
    /\ doc \in LoadDocs
    /\ pc = "rebuilt"
    /\ structure = get_structure(doc.stmts)
    /\ dependencies = resolve(structure)
    /\ lo_pc = "off"
    /\ lo_todo = {}
    /\ lo_stack = <<>>
    /\ visited = {}
    /\ temp_visited = {}
    /\ result = <<>>
    /\ DcOff
    /\ dirs = create_structure(structure)
    /\ files = RebuiltFiles(structure, dependencies)
    /\ metadata_file = save_metadata(structure)
    /\ rebuild_result = "True"
    /\ metadata = NoMetadata
    /\ modules_order = <<>>
    /\ output = NoOutput
    /\ build_result = "none"
    /\ CleanupOff
    /\ SplitOff
    /\ InitCodeOff
    /\ PassOff
    /\ ld_pc = "idle"
    /\ ld_entry \in {"launcher", "statements"}
    /\ ld_todo = <<>>
    /\ sys_modules = <<>>
    /\ main_namespace = <<>>

\* The namespace with no name.
NoNames == <<>>

\* The top-level import lines of a text: the ones the interpreter runs when
\* it executes the file.
TopImports(c) == {i \in c.imports : ~i.nested}

\* Is a module that is no file of the tree a module of the library?  The
\* names imports and init and every dotted name are looked up in the tree.
IsLibrary(m) == m[1] = <<>> /\ m[2] \notin {Str.imports, Str.init}

\* The files of the tree a file imports when it is executed; a file in a
\* category directory runs the __init__.py of the directory first.
ImportGraph(fs) ==
    [p \in DOMAIN fs |->
        {i.module : i \in {j \in TopImports(fs[p]) : ~IsLibrary(j.module)}}
        \cup (IF p[1] # <<>> /\ Path(p[1], Str.dunder_init) \in DOMAIN fs
              THEN {Path(p[1], Str.dunder_init)} ELSE {})]

\* The bindings of imports.py: the simple constants, then "<name> = None"
\* for every deferred constant.
PreludeNamespace(c) ==
    [n \in {c.units[k].name : k \in 1..Len(c.units)} \cup c.deferred |->
        IF n \in c.deferred THEN "None" ELSE "value"]

\* The names "from imports import *" binds in a file that has the line.
StarNamespace(fs, c) ==
    IF StarImport \in TopImports(c) /\ Path(<<>>, Str.imports) \in DOMAIN fs
    THEN PreludeNamespace(fs[Path(<<>>, Str.imports)])
    ELSE NoNames

\* The namespace of a file after the interpreter executed it: the names of
\* the star import, then the bindings the file makes itself.  init.py runs
\* the original assignments.
Namespace(fs, p) ==
    LET c == fs[p]
        own == IF c.kind = "prelude" THEN PreludeNamespace(c)
               ELSE IF c.kind = "init"
                    THEN [n \in {c.units[k].name : k \in 1..Len(c.units)} |-> "instance"]
                    ELSE NoNames
    IN  own @@ StarNamespace(fs, c)

\* The entry point starts.  Run as a file it is compiled first, and an
\* indented line at its top level is an IndentationError.
LoadStart ==
    /\ ld_pc = "idle"
    /\ LET lines == files[Path(<<>>, SourceModule)].lines
       IN  IF ld_entry = "launcher" /\ \E k \in 1..Len(lines) : lines[k].nested
           THEN ld_pc' = "failed" /\ UNCHANGED ld_todo
           ELSE ld_pc' = "running" /\ ld_todo' = lines
    /\ UNCHANGED <<ld_entry, sys_modules, main_namespace>>

\* One import statement of the entry point: the file and every file it
\* imports are executed unless sys.modules has them; a file that is not
\* there raises ModuleNotFoundError.  "import *" copies the namespace of
\* the file into __main__.
LoadImport ==
    /\ ld_pc = "running"
    /\ ld_todo # <<>>
    /\ LET line == Head(ld_todo)
           closure == Reach(ImportGraph(files), {line.module})
       IN  IF IsLibrary(line.module)
           THEN UNCHANGED <<ld_pc, sys_modules, main_namespace>>
           ELSE IF closure \subseteq DOMAIN files
           THEN /\ sys_modules' =
                    [p \in DOMAIN sys_modules \cup closure |->
                        IF p \in DOMAIN sys_modules THEN sys_modules[p]
                        ELSE Namespace(files, p)]
                /\ main_namespace' =
                    IF line.name = Str.star
                    THEN sys_modules'[line.module] @@ main_namespace
                    ELSE main_namespace
                /\ UNCHANGED ld_pc
           ELSE /\ ld_pc' = "failed"
                /\ UNCHANGED <<sys_modules, main_namespace>>
    /\ ld_todo' = Tail(ld_todo)
    /\ UNCHANGED ld_entry

\* The last import statement has run.
LoadDone ==
    /\ ld_pc = "running"
    /\ ld_todo = <<>>
    /\ ld_pc' = "loaded"
    /\ UNCHANGED <<ld_entry, ld_todo, sys_modules, main_namespace>>

LoadStep == LoadStart \/ LoadImport \/ LoadDone

LoadNext ==
    LoadStep /\ UNCHANGED <<lovars, docvars, treevars, buildvars, splitvars, initvars, passvars>>

SpecLoad == LoadInit /\ [][LoadNext]_vars

\* What the code of unit u reads under the name b when it is called: the
\* name is looked up in the namespace of the file of u.
Observes(st, u, b) ==
    LET p == FileOf(st, u)
    IN  IF p \notin DOMAIN sys_modules THEN "not loaded"
        ELSE IF b \in DOMAIN sys_modules[p] THEN sys_modules[p][b]
        ELSE "NameError"

(***************************************************************************)
(* SpecInitFiles: Rebuilder._generate_init_files, the text of the files    *)
(***************************************************************************)
UpperChar(c) == IF IsLower(c) THEN Chars[Ord(c) - 27] ELSE c

\* str.capitalize on the words between "_", joined.
module_name_to_class_name(w) ==
    LET idx == Ascending({i \in 1..Len(w) : w[i] # "_"})
        Cap(i) == IF i = 1 \/ w[i - 1] = "_" THEN UpperChar(w[i])
                  ELSE LowerStr(<<w[i]>>)[1]
    IN  [k \in 1..Len(idx) |-> Cap(idx[k])]

\* The first class of the structure with the name n.
FirstClass(st, n) ==
    st.classes[CHOOSE k \in 1..Len(st.classes) :
                    /\ st.classes[k].name = n
                    /\ \A l \in 1..(k - 1) : st.classes[l].name # n]

\* module_dependencies of _generate_init_code: an entry for every module
\* whose converted name is the name of a class, holding the converted names
\* of its bases and usages that are modules of the category.
ModuleDependencies(st, modules) ==
    LET found == {m \in Range(modules) : module_name_to_class_name(m) \in Names(st.classes)}
        Deps(m) == LET cls == FirstClass(st, module_name_to_class_name(m))
                   IN  {class_name_to_module_name(b) :
                            b \in cls.bases \cup UsagesOf(st, cls.name)}
                       \cap Range(modules)
    IN  [m \in found |-> Deps(m)]

\* visit of _topological_sort_modules: acc is <<visited, result>>.  The
\* order in which the dependencies of one module are visited is the order
\* of a Python set.
RECURSIVE TopoVisit(_, _, _)
RECURSIVE TopoVisitAll(_, _, _)
TopoVisit(m, deps, acc) ==
    IF m \in acc[1] THEN acc
    ELSE LET after == TopoVisitAll(IF m \in DOMAIN deps THEN deps[m] ELSE {},
                                   deps, <<acc[1] \cup {m}, acc[2]>>)
         IN  <<after[1], Append(after[2], m)>>

TopoVisitAll(todo, deps, acc) ==
    IF todo = {} THEN acc
    ELSE LET d == CHOOSE x \in todo : TRUE
         IN  TopoVisitAll(todo \ {d}, deps, TopoVisit(d, deps, acc))

\* _topological_sort_modules
RECURSIVE TopoLoop(_, _, _)
TopoLoop(modules, deps, acc) ==
    IF modules = <<>> THEN acc[2]
    ELSE TopoLoop(Tail(modules), deps, TopoVisit(Head(modules), deps, acc))

topological_sort_modules(modules, dependencies_) ==
    TopoLoop(modules, dependencies_, <<{}, <<>>>>)

\* The modules whose class depends on a function.
UtilsDependentModules(st, g, modules) ==
    {m \in Range(modules) :
        GraphDeps(g, module_name_to_class_name(m)) \cap Names(st.functions) # {}}

\* Does a function depend on a class of the category?
UtilsImportsCategory(st, g, category) ==
    \E f \in Names(st.functions) :
        \E dep \in GraphDeps(g, f) \cap Names(st.classes) :
            determine_category(dep) = category

\* The modules on a two-sided dependency, with the converted name of the
\* other side.
DirectCycleModules(g, modules) ==
    UNION {{m, class_name_to_module_name(dep)} :
            <<m, dep>> \in {<<x, y>> \in Range(modules) \X DOMAIN g :
                /\ y \in GraphDeps(g, module_name_to_class_name(x))
                /\ module_name_to_class_name(x) \in g[y]}}

modules_with_cycles(st, g, category, modules) ==
    (IF UtilsImportsCategory(st, g, category)
     THEN UtilsDependentModules(st, g, modules) ELSE {})
    \cup DirectCycleModules(g, modules)

\* _generate_init_code: the modules of the "from .<module> import *" lines
\* in their order, and the modules left out.
generate_init_code(st, g, category, modules) ==
    LET sorted_modules == topological_sort_modules(modules, ModuleDependencies(st, modules))
        skip == modules_with_cycles(st, g, category, modules)
        Kept(m) == m \notin skip
    IN  [lines |-> SelectSeq(sorted_modules, Kept),
         skipped |-> Range(sorted_modules) \cap skip]

\* The category of a component of the dependency graph in
\* _generate_main_init_code, <<>> for none: the directory of the file of a
\* class, utils for a function.
ComponentCategory(st, n) ==
    IF n \in Names(st.classes) THEN determine_category(n)
    ELSE IF n \in Names(st.functions) THEN Str.utils
    ELSE <<>>

\* category_dependencies
category_dependencies(st, g) ==
    [c \in {ComponentCategory(st, n) : n \in DOMAIN g} \ {<<>>} |->
        {ComponentCategory(st, d) :
            d \in UNION {g[n] : n \in {x \in DOMAIN g : ComponentCategory(st, x) = c}}}
        \ {<<>>, c}]

\* The categories with a dependency in both directions.
MutualCategories(cd) ==
    {c \in DOMAIN cd : \E d \in cd[c] : d \in DOMAIN cd /\ c \in cd[d]}

\* The paths has_cycle_to(category, target_cat, []) can report: they lead
\* from the category to the target along category_dependencies, visit no
\* category twice and have more than one category before the target.
ReportedPaths(cd, category, target_cat) ==
    LET nodes == DOMAIN cd \cup UNION {cd[c] : c \in DOMAIN cd}
        Next_(x) == IF x \in DOMAIN cd THEN cd[x] ELSE {}
    IN  {p \in UNION {[1..n -> nodes] : n \in 3..Cardinality(nodes)} :
            /\ p[1] = category
            /\ p[Len(p)] = target_cat
            /\ \A i, j \in 1..Len(p) : i # j => p[i] # p[j]
            /\ \A i \in 1..(Len(p) - 1) : p[i + 1] \in Next_(p[i])}

\* The categories the search from one category marks: those before the
\* target on the path reported for the first target that has one.  After
\* a report the category stays in visited and every later search from it
\* returns at once.  Which target comes first and which of several paths
\* is reported is the order of a Python dict and set.
MarkedFrom(cd, category) ==
    LET targets == {t \in DOMAIN cd \ {category} : ReportedPaths(cd, category, t) # {}}
    IN  IF targets = {} THEN {}
        ELSE LET t == CHOOSE x \in targets : TRUE
                 p == CHOOSE q \in ReportedPaths(cd, category, t) : TRUE
             IN  {p[i] : i \in 1..(Len(p) - 1)}

categories_with_cycles(st, g) ==
    LET cd == category_dependencies(st, g)
    IN  MutualCategories(cd) \cup UNION {MarkedFrom(cd, c) : c \in DOMAIN cd}

\* _generate_main_init_code: the categories of the
\* "from .<category> import *" lines.
generate_main_init_code(st, g, ds) ==
    (get_project_categories(st) \cap ds) \ categories_with_cycles(st, g)

\* The names of the modules in a directory of the tree.
ModulesIn(fs, category) == {p[2] : p \in {q \in DOMAIN fs : q[1] = category}}

\* The statements of the documents whose classes and functions depend on
\* each other inside a category and across the categories core, handlers
\* and utils.
InitStmts ==
    {NoBody("class", "Alpha"), NoBody("class", "Base"), NoBody("class", "base"),
     NoBody("class", "JobHandler"), NoBody("def", "helper"),
     Stmt("class", Spelling("Base"), 0, Spelling("Alpha"), {}, {}, <<>>),
     Stmt("class", Spelling("Alpha"), 0, Spelling("Base"), {}, {}, <<>>),
     Stmt("class", Spelling("Alpha"), 0, Spelling("base"), {}, {}, <<>>),
     Stmt("class", Spelling("Alpha"), 0, <<>>, {Spelling("helper")}, {}, <<>>),
     Stmt("class", Spelling("Base"), 0, <<>>, {Spelling("Alpha")}, {}, <<>>),
     Stmt("class", Spelling("JobHandler"), 0, <<>>, {Spelling("Base")}, {}, <<>>),
     Stmt("class", Spelling("JobHandler"), 0, <<>>, {Spelling("helper")}, {}, <<>>),
     Stmt("def", Spelling("helper"), 0, <<>>, {Spelling("JobHandler")}, {}, <<>>),
     Stmt("def", Spelling("helper"), 0, <<>>, {Spelling("Alpha")}, {}, <<>>)}

\* The state in which rebuild calls _generate_init_files.
InitFilesInit ==
    /\ lo_pc = "off"
    /\ lo_todo = {}
    /\ lo_stack = <<>>
    /\ visited = {}
    /\ temp_visited = {}
    /\ result = <<>>
    /\ DcOff
    /\ doc \in {d \in Docs(InitStmts) : d.parseable /\ d.stmts # <<>>}
    /\ pc = "init_files"
    /\ structure = get_structure(doc.stmts)
    /\ dependencies = resolve(structure)
    /\ dirs = create_structure(structure)
    /\ files = distribute_components(structure, dependencies)
    /\ metadata_file = NoMetadata
    /\ rebuild_result = "none"
    /\ CleanupOff
    /\ SplitOff
    /\ LoadOff
    /\ PassOff
    /\ metadata = NoMetadata
    /\ modules_order = <<>>
    /\ output = NoOutput
    /\ build_result = "none"
    /\ ic_pc = "categories"
    /\ ic_todo = {c \in get_project_categories(structure) \cap dirs :
                    ModulesIn(files, c) # {}}
    /\ init_code = <<>>
    /\ main_init = {}

\* One turn of the loop over the categories: os.listdir returns the files
\* of the directory in an arbitrary order.
GenerateInitCode ==
    /\ ic_pc = "categories"
    /\ ic_todo # {}
    /\ \E category \in ic_todo :
        \E modules \in ListsOf(ModulesIn(files, category)) :
            /\ init_code' = Put(init_code, category,
                                generate_init_code(structure, dependencies, category, modules))
            /\ ic_todo' = ic_todo \ {category}
    /\ UNCHANGED <<ic_pc, main_init>>
    /\ UNCHANGED <<lovars, docvars, treevars, buildvars, splitvars, loadvars, passvars>>

GenerateMainInitCode ==
    /\ ic_pc = "categories"
    /\ ic_todo = {}
    /\ main_init' = generate_main_init_code(structure, dependencies, dirs)
    /\ ic_pc' = "done"
    /\ UNCHANGED <<ic_todo, init_code>>
    /\ UNCHANGED <<lovars, docvars, treevars, buildvars, splitvars, loadvars, passvars>>

InitFilesNext == GenerateInitCode \/ GenerateMainInitCode

SpecInitFiles == InitFilesInit /\ [][InitFilesNext]_vars

(***************************************************************************)
(* SpecPasses: one rewriting pass applied to a text and to its own output  *)
(*                                                                         *)
(* A text is the list of its lines.  A line keeps what the passes read:    *)
(*   indent  0 for a line that starts in the first column, 1 otherwise     *)
(*   hashes  the number of "# " in front of its text                       *)
(*   kind    "blank", "import" (import <name>), "from" (from <module>      *)
(*           import <name>), "note" (the comment that announces a deferred *)
(*           import), "class", "def", "getter" (def _get_<name>():),       *)
(*           "doc" (a line that starts with three quotes), "call"          *)
(*           (<name>( or <name>.), "getcall" (_get_<name>()( ), "return"   *)
(*   quotes  does the line hold three quotes?                              *)
(***************************************************************************)
\* The largest number of lines of a text handed to a pass.
MaxTextLines == 4

TextLine(indent, hashes, kind, module, name, quotes) ==
    [indent |-> indent, hashes |-> hashes, kind |-> kind, module |-> module,
     name |-> name, quotes |-> quotes]

BlankLine == TextLine(0, 0, "blank", <<>>, <<>>, FALSE)

\* The loop of _remove_imports_from_code: a line with three quotes opens a
\* docstring or closes the open one; a line of the first column that starts
\* with "import " or "from " is left out unless a docstring is open.
RECURSIVE RemoveImportsLoop(_, _)
RemoveImportsLoop(lines, in_docstring) ==
    IF lines = <<>> THEN <<>>
    ELSE LET line == Head(lines)
             now == IF line.quotes THEN ~in_docstring ELSE in_docstring
         IN  IF line.kind = "blank"
             THEN <<line>> \o RemoveImportsLoop(Tail(lines), in_docstring)
             ELSE IF /\ ~now
                     /\ line.indent = 0
                     /\ line.hashes = 0
                     /\ line.kind \in {"import", "from"}
             THEN RemoveImportsLoop(Tail(lines), now)
             ELSE <<line>> \o RemoveImportsLoop(Tail(lines), now)

\* _remove_imports_from_code
remove_imports_from_code(code) == RemoveImportsLoop(code, FALSE)

\* Does the line hold "from <a>.<b> import <name>"?
DottedImport(line) == line.kind = "from" /\ line.module[1] # <<>>

\* _replace_internal_imports on one line: the lines that replace it.
InternalLine(line, st, g, current_category, component_name) ==
    IF /\ DottedImport(line)
       /\ line.hashes = 0
       /\ line.name \in Names(st.classes)
       /\ ShouldUseLazy(st, g, component_name, line.name)
    THEN <<>>
    ELSE IF line.hashes > 0 \/ line.kind = "doc" THEN <<line>>
    ELSE IF line.kind = "from" /\ line.module = Path(<<>>, SourceModule)
    THEN LET new == ReplaceSourceImport(st, g, current_category, component_name, line.name)
         IN  IF new = {} THEN <<>>
             ELSE <<[line EXCEPT !.module = (CHOOSE i \in new : TRUE).module]>>
    ELSE IF line.kind = "import" /\ line.name = SourceModule THEN <<>>
    ELSE IF /\ DottedImport(line)
            /\ line.module[1] = current_category
            /\ line.module[2] = component_snake(component_name)
    THEN <<>>
    ELSE <<line>>

\* _replace_internal_imports on the lines of a text.
ReplaceInternalLines(code, st, g, current_category, component_name) ==
    Flatten([k \in 1..Len(code) |->
                InternalLine(code[k], st, g, current_category, component_name)])

\* lazy_import_func of _replace_with_lazy_import, line by line.
GetterBlock(class_name, category, module_name) ==
    <<BlankLine,
      TextLine(0, 0, "getter", <<>>, class_name, FALSE),
      TextLine(1, 0, "doc", <<>>, <<>>, TRUE),
      TextLine(1, 0, "from", Path(category, module_name), class_name, FALSE),
      TextLine(1, 0, "return", <<>>, class_name, FALSE),
      BlankLine>>

\* getter_name in content
GetterInLines(code, class_name) ==
    \E k \in 1..Len(code) :
        /\ code[k].kind \in {"getter", "getcall"}
        /\ Contains(GetterName(code[k].name), GetterName(class_name))

\* insert_pos: the index, counted from 0, of the first line that starts a
\* class or a function other than an accessor; 0 when there is none.
InsertPos(code) ==
    LET starts == {k \in 1..Len(code) :
                        code[k].hashes = 0 /\ code[k].kind \in {"class", "def"}}
    IN  IF starts = {} THEN 0
        ELSE (CHOOSE k \in starts : \A l \in starts : k <= l) - 1

\* The accessor is added unless its name is in the text or insert_pos is 0.
WithGetter(code, class_name, category, module_name) ==
    IF GetterInLines(code, class_name) \/ InsertPos(code) = 0 THEN code
    ELSE SubSeq(code, 1, InsertPos(code))
         \o GetterBlock(class_name, category, module_name)
         \o SubSeq(code, InsertPos(code) + 1, Len(code))

\* import_pattern.sub on one line: the text of the import becomes the
\* comment that announces a deferred import, a line break and the import
\* behind "# "; what stood in front of the import stays in front of the
\* comment.
CommentImport(line, class_name, category, module_name) ==
    IF /\ line.kind = "from"
       /\ line.module = Path(category, module_name)
       /\ line.name = class_name
    THEN <<TextLine(line.indent, line.hashes + 1, "note", <<>>, <<>>, FALSE),
           [line EXCEPT !.indent = 0, !.hashes = 1]>>
    ELSE <<line>>

\* The calls of the class go through the accessor, except on a line that
\* starts with "#" or with three quotes.
RouteCall(line, class_name) ==
    IF line.hashes > 0 \/ line.kind = "doc" THEN line
    ELSE IF line.kind = "call" /\ line.name = class_name
    THEN [line EXCEPT !.kind = "getcall"]
    ELSE line

\* _replace_with_lazy_import on the lines of a text.
ReplaceWithLazyLines(code, class_name, category, module_name) ==
    LET inserted == WithGetter(code, class_name, category, module_name)
        commented == Flatten([k \in 1..Len(inserted) |->
                        CommentImport(inserted[k], class_name, category, module_name)])
    IN  [k \in 1..Len(commented) |-> RouteCall(commented[k], class_name)]

\* The pass named by rw_pass on a text.
ApplyTo(pass, code, st, g) ==
    CASE pass.name = "remove_imports" -> remove_imports_from_code(code)
      [] pass.name = "replace_internal" ->
            ReplaceInternalLines(code, st, g, pass.category, pass.component)
      [] pass.name = "lazy_import" ->
            ReplaceWithLazyLines(code, pass.component, pass.category, pass.component)

\* The lines of the texts handed to _remove_imports_from_code: imports of
\* the first column and of a body, and docstrings whose text reaches the
\* first column.
RemoveLines ==
    {BlankLine,
     TextLine(0, 0, "import", <<>>, Spelling("os"), FALSE),
     TextLine(1, 0, "import", <<>>, Spelling("os"), FALSE),
     TextLine(0, 0, "from", Path(<<>>, SourceModule), Spelling("helper"), TRUE),
     TextLine(1, 0, "doc", <<>>, <<>>, TRUE),
     TextLine(0, 0, "def", <<>>, Spelling("helper"), FALSE)}

\* The lines of the texts handed to _replace_internal_imports.
InternalLines ==
    {TextLine(0, 0, "import", <<>>, SourceModule, FALSE),
     TextLine(1, 0, "from", Path(<<>>, SourceModule), Spelling("helper"), FALSE),
     TextLine(1, 0, "from", Path(<<>>, SourceModule), Spelling("Alpha"), FALSE),
     TextLine(0, 0, "from", Path(Str.core, Spelling("Alpha")), Spelling("Alpha"), FALSE),
     TextLine(0, 1, "from", Path(<<>>, SourceModule), Spelling("Alpha"), FALSE),
     TextLine(0, 0, "def", <<>>, Spelling("other"), FALSE)}

\* The lines of the texts handed to _replace_with_lazy_import.
LazyLines ==
    {TextLine(0, 0, "import", <<>>, Spelling("os"), FALSE),
     TextLine(0, 0, "from", Path(Str.core, Spelling("Alpha")), Spelling("Alpha"), FALSE),
     TextLine(0, 0, "def", <<>>, Spelling("helper"), FALSE),
     TextLine(1, 0, "call", <<>>, Spelling("Alpha"), FALSE),
     TextLine(0, 0, "getter", <<>>, Spelling("Alpha"), FALSE),
     BlankLine}

TextsOf(universe) == UNION {[1..n -> universe] : n \in 0..MaxTextLines}

\* A pass with the arguments of its call: the category and the name of the
\* component whose text is processed, or of the class to defer.
Pass(name, category, component) ==
    [name |-> name, category |-> category, component |-> component]

\* The documents whose structure and dependency graph the passes read.
PassDocs ==
    {[parseable |-> TRUE, stmts |-> ss] :
        ss \in {<<NoBody("class", "Alpha"), NoBody("def", "helper"), NoBody("def", "other")>>,
                <<Stmt("class", Spelling("Alpha"), 0, <<>>, {Spelling("helper")}, {}, <<>>),
                  Stmt("def", Spelling("helper"), 0, <<>>, {Spelling("Alpha")}, {}, <<>>)>>}}

PassesInit ==
    /\ doc \in PassDocs
    /\ pc = "distribute"
    /\ structure = get_structure(doc.stmts)
    /\ dependencies = resolve(structure)
    /\ lo_pc = "off"
    /\ lo_todo = {}
    /\ lo_stack = <<>>
    /\ visited = {}
    /\ temp_visited = {}
    /\ result = <<>>
    /\ DcOff
    /\ TreeInit
    /\ CleanupOff
    /\ SplitOff
    /\ LoadOff
    /\ InitCodeOff
    /\ metadata = NoMetadata
    /\ modules_order = <<>>
    /\ output = NoOutput
    /\ build_result = "none"
    /\ rw_pc = "input"
    /\ \/ /\ rw_pass = Pass("remove_imports", <<>>, <<>>)
          /\ rw_input \in TextsOf(RemoveLines)
       \/ /\ rw_pass \in {Pass("replace_internal", Str.utils, Str.utils),
                          Pass("replace_internal", Str.core, Spelling("Alpha"))}
          /\ rw_input \in TextsOf(InternalLines)
       \/ /\ rw_pass = Pass("lazy_import", Str.core, Spelling("Alpha"))
          /\ rw_input \in TextsOf(LazyLines)
    /\ rw_once = <<>>
    /\ rw_twice = <<>>

\* The pass is applied to the text.
ApplyPass ==
    /\ rw_pc = "input"
    /\ rw_once' = ApplyTo(rw_pass, rw_input, structure, dependencies)
    /\ rw_pc' = "once"
    /\ UNCHANGED <<rw_pass, rw_input, rw_twice>>
    /\ UNCHANGED <<lovars, docvars, treevars, buildvars, splitvars, loadvars, initvars>>

\* The pass is applied to its own output.
ApplyPassAgain ==
    /\ rw_pc = "once"
    /\ rw_twice' = ApplyTo(rw_pass, rw_once, structure, dependencies)
    /\ rw_pc' = "twice"
    /\ UNCHANGED <<rw_pass, rw_input, rw_once>>
    /\ UNCHANGED <<lovars, docvars, treevars, buildvars, splitvars, loadvars, initvars>>

PassesNext == ApplyPass \/ ApplyPassAgain

SpecPasses == PassesInit /\ [][PassesNext]_vars

(***************************************************************************)
(* C10: for every dependency graph, cycles and self-loops included,        *)
(* get_load_order terminates without raising and returns a list in which   *)
(* every component of the graph appears exactly once.                      *)
(***************************************************************************)
LoadOrderComplete ==
    /\ lo_pc = "done"
    /\ \A c \in all_components(dependencies) : Count(result, c) = 1
    /\ Range(result) = all_components(dependencies)

C10_LoadOrderTerminatesComplete == <>[]LoadOrderComplete

\* A finished run on a graph that has a self-loop and a cycle through two units.
C10_Witness ==
    /\ lo_pc = "done"
    /\ "u1" \in DepsOf(dependencies, "u1")
    /\ "u2" \in DepsOf(dependencies, "u3")
    /\ "u3" \in DepsOf(dependencies, "u2")
    /\ Len(result) = 3

\* The place of component c in the list returned.
PositionOf(order, c) == CHOOSE i \in 1..Len(order) : order[i] = c

\* The place of component c in the declaration order.
DeclaredAt(c) == CHOOSE i \in 1..Len(Units) : Units[i] = c

\* u and v lie on a common cycle of the graph.
OnCommonCycle(g, u, v) == u # v /\ v \in Reach(g, {u}) /\ u \in Reach(g, {v})

\* C11: in the list get_load_order returns, for every dependency edge
\* u -> v with u not reachable from v, v stands before u.
C11_DependencyBeforeDependent ==
    lo_pc = "done" =>
        \A u \in DOMAIN dependencies :
            \A v \in dependencies[u] :
                u \notin Reach(dependencies, {v}) =>
                    PositionOf(result, v) < PositionOf(result, u)

\* A finished run on a graph with a cycle through u1 and u2 and an edge
\* from the cycle to u3, which is on no cycle.
C11_Witness ==
    /\ lo_pc = "done"
    /\ "u2" \in DepsOf(dependencies, "u1")
    /\ "u1" \in DepsOf(dependencies, "u2")
    /\ "u3" \in DepsOf(dependencies, "u1")
    /\ PositionOf(result, "u3") < PositionOf(result, "u1")

\* C12: in the list get_load_order returns, the members of a cycle stand
\* in their declaration order relative to each other.
C12_CycleInDeclarationOrder ==
    lo_pc = "done" =>
        \A u, v \in all_components(dependencies) :
            (OnCommonCycle(dependencies, u, v) /\ DeclaredAt(u) < DeclaredAt(v)) =>
                PositionOf(result, u) < PositionOf(result, v)

\* The graph has a cycle through at least two units.
HasProperCycle(g) == \E u, v \in all_components(g) : OnCommonCycle(g, u, v)

\* C13: detect_cycles returns a non-empty list exactly when the graph has a
\* cycle through at least two units; a unit that depends on itself is not
\* reported.
C13_CyclesIffProperCycle ==
    dc_pc = "done" => ((cycles # <<>>) <=> HasProperCycle(dependencies))

\* C14: _would_create_cycle(a, b) returns True exactly when the graph has a
\* path of zero or more edges from b to a.
C14_CycleCheckIsReachability ==
    cc_result # "none" =>
        (cc_result = "True"
            <=> cc_call.from_class \in Reach(dependencies, {cc_call.to_class}))

\* A call that returned True on a graph with a cycle, for two units joined
\* by a path of two edges.
C14_Witness ==
    /\ cc_result = "True"
    /\ cc_call.from_class = "u3"
    /\ cc_call.to_class = "u1"
    /\ cc_call.graph = ("u1" :> <<"u2">> @@ "u2" :> <<"u1", "u3">>)

\* C15: the cleanup of _apply_config applied to its own result gives the
\* same text, for every text, every maximum and with or without the
\* trimming of trailing whitespace.
C15_CleanupIdempotent == cl_pc = "twice" => cl_twice = cl_once

\* A second pass over a text the first pass shortened, with trimming.
C15_Witness ==
    /\ cl_pc = "twice"
    /\ cl_config.remove_empty_lines
    /\ cl_config.remove_trailing_whitespace
    /\ cl_config.max_empty_lines = 1
    /\ Len(cl_once) < Len(cl_code)
    /\ Len(cl_once) > 2

\* C16: a build called without a configuration applies no cleanup to the
\* text, whatever builds ran before it in the process.
C16_DefaultBuildAppliesNoCleanup == cl_default = "yes" => cl_once = cl_code

\* The names of the function definitions at the top level, in source order.
TopLevelDefs(stmts) ==
    LET idx == KindIdx(stmts, {"def"})
    IN  [k \in 1..Len(idx) |-> stmts[idx[k]].name]

\* C17: the function list of the parser holds every top-level function
\* definition of the document once, in source order, and no method,
\* whatever the names of the methods of the classes are.
C17_FunctionsAreTopLevelDefs ==
    (pc = "extracted" /\ doc.parseable) =>
        [k \in 1..Len(structure.functions) |-> structure.functions[k].name]
            = TopLevelDefs(doc.stmts)

\* The right-hand side is a direct call to a class of the document.
DirectClassCall(names, const) ==
    const.rhs.kind = "call" /\ const.rhs.callee \in names

\* C18: a top-level binding is deferred-init exactly when its right-hand
\* side is a direct call to a class of the document, with any argument
\* list; every other binding is a simple constant.
C18_DeferredIffDirectClassCall ==
    split_pc = "done" =>
        \A k \in 1..Len(constants) :
            /\ constants[k] \in Range(global_init)
                    <=> DirectClassCall(class_names, constants[k])
            /\ constants[k] \in Range(simple_constants)
                    <=> ~DirectClassCall(class_names, constants[k])

\* The files the entry-point file is to load: the prelude, the class files
\* in source order, init.py when a binding is deferred, utils/main.py.
ExpectedLoads(st) ==
    <<Path(<<>>, Str.imports)>>
    \o [k \in 1..Len(st.classes) |-> ModuleMapping(st)[k].path]
    \o (IF GlobalInit(st) # <<>> THEN <<Path(<<>>, Str.init)>> ELSE <<>>)
    \o <<Path(Str.utils, Str.main)>>

\* C19: the entry-point file a successful rebuild wrote loads the prelude,
\* then every class file once in source order, then init.py when there are
\* deferred bindings, then the entry function; so no deferred statement
\* runs before every class is loaded.
C19_LauncherLoadsInOrder ==
    rebuild_result = "True" =>
        LauncherLoads(files[Path(<<>>, SourceModule)].lines) = ExpectedLoads(structure)

\* C20: the document build writes holds no import line that refers to a
\* file of the bucket tree: not the prelude, not init.py, not a class file
\* and not a function file.
C20_OutputImportsNoTreeFile ==
    output.written => \A i \in output.imports : i.module \notin DOMAIN files

\* The directory d of the tree holds a generated unit file.
HoldsUnitFile(fs, d) ==
    \E p \in DOMAIN fs : p[1] = d /\ fs[p].kind # "pkginit"

\* C21: after a successful rebuild, every directory of a category under the
\* destination holds at least one generated unit file.
C21_NoEmptyCategoryDirectory ==
    Decomposed =>
        \A d \in dirs \ {<<>>, MetadataDir} : HoldsUnitFile(files, d)

\* The classes the unit n references: the names its code loads and its base
\* class, itself left out.
ReferencedClasses(st, n) ==
    LET inClasses == {k \in 1..Len(st.classes) : st.classes[k].name = n}
        inFunctions == {k \in 1..Len(st.functions) : st.functions[k].name = n}
        used == UNION ({get_usages(st.classes[k].code) : k \in inClasses}
                       \cup {get_usages(st.functions[k].code) : k \in inFunctions})
    IN  (used \cap Names(st.classes)) \ {n}

\* C22: after rebuild, the file of a unit U has a direct import of every
\* class T it references, from the file of T, when no dependency path leads
\* from T back to U.
C22_DirectImportOfAcyclicReference ==
    Decomposed =>
        \A u \in Names(structure.classes) \cup Names(structure.functions) :
            \A t \in ReferencedClasses(structure, u) :
                u \notin Reach(dependencies, {t}) =>
                    DirectImport(files[FileOf(structure, u)], FileOf(structure, t), t)

\* The text defines an accessor with the name of the accessor of class x.
AccessorDefined(c, x) == \E y \in c.getters : GetterName(y) = GetterName(x)

\* C24: after rebuild, every accessor a generated file calls is defined in
\* that file and has an import line in its body that is code, not comment.
C24_AccessorDefinedWithActiveImport ==
    Decomposed =>
        \A p \in DOMAIN files :
            \A x \in files[p].rewritten :
                AccessorDefined(files[p], x) /\ x \in files[p].active

\* The deferred bindings the unit u reads.
DeferredRead(st, u) ==
    LET inClasses == {k \in 1..Len(st.classes) : st.classes[k].name = u}
        inFunctions == {k \in 1..Len(st.functions) : st.functions[k].name = u}
    IN  UNION ({st.classes[k].code.uses : k \in inClasses}
               \cup {st.functions[k].code.uses : k \in inFunctions})
        \cap Names(GlobalInit(st))

\* C23: after the entry point has loaded the split program, every class
\* and every function that reads a deferred binding observes the instance
\* init.py created, not the placeholder of the prelude.
C23_ReadersObserveInstance ==
    ld_pc = "loaded" =>
        \A u \in Names(structure.classes) \cup Names(structure.functions) :
            \A b \in DeferredRead(structure, u) :
                Observes(structure, u, b) = "instance"

\* C25: after rebuild, for every reference of a unit U to a class T with a
\* dependency path from T back to U, the file of U defines an accessor
\* for T.
C25_CyclicEdgeHasAccessor ==
    Decomposed =>
        \A u \in Names(structure.classes) \cup Names(structure.functions) :
            \A t \in ReferencedClasses(structure, u) :
                u \in Reach(dependencies, {t}) =>
                    t \in files[FileOf(structure, u)].getters

\* The classes whose code loads the name of the class itself.
SelfReferring(st) ==
    {st.classes[k].name : k \in {j \in 1..Len(st.classes) :
                                    st.classes[j].name \in st.classes[j].code.uses}}

\* C26: after rebuild, the file of a class that mentions its own name has
\* no import of the class, no accessor for it, and its references to the
\* name are not routed through an accessor.
C26_SelfReferenceUntouched ==
    Decomposed =>
        \A c \in SelfReferring(structure) :
            LET f == files[FileOf(structure, c)]
            IN  /\ \A i \in f.imports : i.name # c
                /\ c \notin f.getters
                /\ c \notin f.rewritten

\* The functions the unit n references that were written to another file.
ReferencedFunctions(st, n) ==
    LET inClasses == {k \in 1..Len(st.classes) : st.classes[k].name = n}
        inFunctions == {k \in 1..Len(st.functions) : st.functions[k].name = n}
        used == UNION ({get_usages(st.classes[k].code) : k \in inClasses}
                       \cup {get_usages(st.functions[k].code) : k \in inFunctions})
    IN  {f \in used \cap Names(st.functions) : FileOf(st, f) # FileOf(st, n)}

\* C27: after rebuild, the file of a unit that references a function
\* written to a different file has an import of that function from the
\* bucket file the function was written to, for every bucket and every
\* letter case of the name.
C27_FunctionImportedFromItsBucket ==
    Decomposed =>
        \A u \in Names(structure.classes) \cup Names(structure.functions) :
            \A f \in ReferencedFunctions(structure, u) :
                \E i \in files[FileOf(structure, u)].imports :
                    i.name = f /\ i.module = FileOf(structure, f)

\* Does the category lie on a directed cycle of the dependencies between
\* the categories?
OnCategoryCycle(st, g, c) ==
    LET cd == category_dependencies(st, g)
    IN  c \in DOMAIN cd /\ \E d \in cd[c] : c \in Reach(cd, {d})

\* C28: the __init__.py of the destination leaves a category out of its
\* blanket imports exactly when the category lies on a directed cycle of
\* the dependencies between the categories.
C28_LeftOutIffOnCycle ==
    ic_pc = "done" =>
        \A c \in get_project_categories(structure) :
            c \notin main_init <=> OnCategoryCycle(structure, dependencies, c)

\* The classes of a category, each with its bases and the classes it uses
\* that belong to the category.
ClassGraph(st, category) ==
    LET members == {n \in Names(st.classes) : determine_category(n) = category}
    IN  [n \in members |->
            ((FirstClass(st, n).bases \cup UsagesOf(st, n)) \cap members) \ {n}]

\* The place of a module in the lines of an __init__.py, 0 when it has none.
LineOf(code, m) ==
    IF m \in Range(code.lines)
    THEN CHOOSE i \in 1..Len(code.lines) : code.lines[i] = m
    ELSE 0

\* C29: in the __init__.py of a category whose classes do not depend on
\* each other in a cycle, the import of a class that another class of the
\* category derives from or uses stands before the import of that class.
C29_DependencyImportedFirst ==
    ic_pc = "done" =>
        \A category \in DOMAIN init_code :
            LET cg == ClassGraph(structure, category)
            IN  \A a \in DOMAIN cg :
                    \A b \in cg[a] :
                        (/\ a \notin Reach(cg, {b})
                         /\ LineOf(init_code[category], a) > 0
                         /\ LineOf(init_code[category], b) > 0)
                        => LineOf(init_code[category], b) < LineOf(init_code[category], a)

\* C30: each of the three rewriting passes (_remove_imports_from_code,
\* _replace_internal_imports, _replace_with_lazy_import) returns its own
\* output unchanged when it is applied to it a second time.
C30_PassesIdempotent ==
    rw_pc = "twice" => rw_twice = rw_once

====
